---- MODULE Spec2Model ----
(***************************************************************************)
(* Tower Upgrade Advisor: the scoring engines (src/src/scoring.py) over    *)
(* the data model (src/src/models.py).                                     *)
(*                                                                         *)
(* Numbers.  A Python float is held as an exact rational <<n, d>> in       *)
(* lowest terms with d > 0.  Cumulative effects and base values are        *)
(* whole-number floats and are held as integers; on these the float        *)
(* subtraction next_effect - current_effect is exact.  round(x, 12) yields *)
(* a fixed-point value <<hi, lo>> that stands for hi*10^-6 + lo*10^-12     *)
(* with 0 <= lo < 10^6 (10^12 does not fit the integers of the checker).   *)
(***************************************************************************)
EXTENDS Integers, Sequences, FiniteSets, TLC

VARIABLES catalog, profile, call, result, files, tmps, now, procs

vars == <<catalog, profile, call, result, files, tmps, now, procs>>

\* The profile directory, the clock and the running ProfileManager calls.
storeVars == <<files, tmps, now, procs>>

(***************************************************************************)
(* Bounds                                                                  *)
(***************************************************************************)
MaxCatalogLen == 2

MaxProfileLevel == 3

MaxCoins == 2

(***************************************************************************)
(* Program constants                                                       *)
(***************************************************************************)
_SCORE_PRECISION == 12

_RAPID_FIRE_BONUS == 4

_RAPID_FIRE_DURATION == 1

(***************************************************************************)
(* Rational arithmetic (Python float / Decimal values)                     *)
(***************************************************************************)
Abs(x) == IF x < 0 THEN -x ELSE x

RECURSIVE GCD(_, _)
GCD(a, b) == IF b = 0 THEN a ELSE GCD(b, a % b)

Rat(n, d) ==
    LET g == GCD(Abs(n), Abs(d))
        s == IF d < 0 THEN -1 ELSE 1
    IN  <<(s * n) \div g, (s * d) \div g>>

Flt(i) == <<i, 1>>

RAdd(a, b) == Rat(a[1] * b[2] + b[1] * a[2], a[2] * b[2])

RSub(a, b) == Rat(a[1] * b[2] - b[1] * a[2], a[2] * b[2])

RMul(a, b) == Rat(a[1] * b[1], a[2] * b[2])

RDiv(a, b) == Rat(a[1] * b[2], a[2] * b[1])

RLess(a, b) == a[1] * b[2] < b[1] * a[2]

RLeq(a, b) == a[1] * b[2] <= b[1] * a[2]

RPos(a) == a[1] > 0

\* 10^6: half of the _SCORE_PRECISION decimals fit one integer.
Million == 10 ^ (_SCORE_PRECISION \div 2)

\* Three more decimal digits of r/d: <<digits, remainder>>.
DivStep(r, d) == <<(r * 1000) \div d, (r * 1000) % d>>

\* round(x, 12) for x >= 0: long division to 12 decimals, then round half
\* to even on the remainder.
RoundPos(n, d) ==
    LET q0 == n \div d
        s1 == DivStep(n % d, d)
        s2 == DivStep(s1[2], d)
        s3 == DivStep(s2[2], d)
        s4 == DivStep(s3[2], d)
        hi == q0 * Million + s1[1] * 1000 + s2[1]
        lo == s3[1] * 1000 + s4[1]
        up == (2 * s4[2] > d) \/ (2 * s4[2] = d /\ lo % 2 = 1)
    IN  IF ~up THEN <<hi, lo>>
        ELSE IF lo + 1 = Million THEN <<hi + 1, 0>>
        ELSE <<hi, lo + 1>>

FixNeg(f) == IF f[2] = 0 THEN <<-f[1], 0>> ELSE <<-f[1] - 1, Million - f[2]>>

\* Python round(x, _SCORE_PRECISION)
Round12(x) == IF x[1] >= 0 THEN RoundPos(x[1], x[2]) ELSE FixNeg(RoundPos(-x[1], x[2]))

FixLess(f, g) == f[1] < g[1] \/ (f[1] = g[1] /\ f[2] < g[2])

FixZero == <<0, 0>>

FixPos(f) == FixLess(FixZero, f)

(***************************************************************************)
(* models.py: UpgradeLevel, UpgradeDefinition                              *)
(***************************************************************************)
UpgradeLevel(level, coin_cost, cumulative_effect, effect_delta) ==
    [level |-> level, coin_cost |-> coin_cost,
     cumulative_effect |-> cumulative_effect, effect_delta |-> effect_delta]

\* Field constraints of UpgradeLevel: level >= 1, coin_cost > 0.
UpgradeLevel_valid(lv) == lv.level >= 1 /\ lv.coin_cost > 0

\* (variant: the level count is not compared with max_level)
_validate_levels_nolen(u) ==
    /\ u.max_level >= 1
    /\ \A i \in 1..Len(u.levels) : UpgradeLevel_valid(u.levels[i])
    /\ \A i \in 1..Len(u.levels) : u.levels[i].level = i
    /\ \A i \in 2..Len(u.levels) : u.levels[i].coin_cost > u.levels[i - 1].coin_cost

\* (variant: equal costs at consecutive levels accepted)
_validate_levels_nonstrict(u) ==
    /\ u.max_level >= 1
    /\ \A i \in 1..Len(u.levels) : UpgradeLevel_valid(u.levels[i])
    /\ Len(u.levels) = u.max_level
    /\ \A i \in 1..Len(u.levels) : u.levels[i].level = i
    /\ \A i \in 2..Len(u.levels) : u.levels[i].coin_cost >= u.levels[i - 1].coin_cost

\* The model validator of UpgradeDefinition: TRUE when construction succeeds.
_validate_levels(u) ==
    /\ u.max_level >= 1
    /\ \A i \in 1..Len(u.levels) : UpgradeLevel_valid(u.levels[i])
    /\ Len(u.levels) = u.max_level
    /\ \A i \in 1..Len(u.levels) : u.levels[i].level = i
    /\ \A i \in 2..Len(u.levels) : u.levels[i].coin_cost > u.levels[i - 1].coin_cost

\* Level list from <<coin_cost, cumulative_effect>> pairs, numbered from 1,
\* effect_delta consistent with base_value.
RECURSIVE MakeLevels(_, _, _)
MakeLevels(base, pairs, k) ==
    IF k > Len(pairs) THEN <<>>
    ELSE <<UpgradeLevel(k, pairs[k][1], pairs[k][2],
                        pairs[k][2] - (IF k = 1 THEN base ELSE pairs[k - 1][2]))>>
         \o MakeLevels(base, pairs, k + 1)

UpgradeDefinition(id, name, category, base_value, max_level, display_order, levels) ==
    [id |-> id, name |-> name, category |-> category, base_value |-> base_value,
     max_level |-> max_level, display_order |-> display_order, levels |-> levels]

\* Candidate upgrade documents, as they may arrive from the data file.
RawUpgrades ==
    { UpgradeDefinition("damage", "Damage", "attack", 1, 2, 0,
                        MakeLevels(1, <<<<1, 2>>, <<2, 3>>>>, 1)),
      UpgradeDefinition("attack_speed", "Attack Speed", "attack", 1, 2, 1,
                        MakeLevels(1, <<<<2, 2>>, <<3, 3>>>>, 1)),
      UpgradeDefinition("health", "Health", "defense", 0, 2, 0,
                        MakeLevels(0, <<<<1, 1>>, <<2, 3>>>>, 1)),
      UpgradeDefinition("health_regen", "Health", "defense", 0, 1, 0,
                        MakeLevels(0, <<<<1, 1>>>>, 1)),
      \* the effect decreases at level 2 and the delta recorded there is off
      UpgradeDefinition("coins", "Coins", "utility", 2, 2, 0,
                        <<UpgradeLevel(1, 1, 3, 1), UpgradeLevel(2, 3, 1, 1)>>),
      UpgradeDefinition("health", "Armor", "defense", 1, 1, 0,
                        MakeLevels(1, <<<<2, 1>>>>, 1)),
      \* rejected at construction: level count differs from max_level
      UpgradeDefinition("wall", "Wall", "defense", 0, 2, 2,
                        MakeLevels(0, <<<<1, 1>>>>, 1)),
      UpgradeDefinition("thorns", "Thorns", "defense", 0, 1, 3,
                        MakeLevels(0, <<<<1, 1>>, <<2, 2>>>>, 1)),
      \* rejected at construction: cost not strictly increasing
      UpgradeDefinition("range", "Range", "attack", 0, 2, 2,
                        MakeLevels(0, <<<<2, 1>>, <<2, 2>>>>, 1)),
      UpgradeDefinition("knockback", "Knockback", "attack", 0, 2, 3,
                        <<UpgradeLevel(1, 3, 1, 1), UpgradeLevel(2, 2, 2, 1)>>),
      \* rejected at construction: level numbers not 1..max_level in order
      UpgradeDefinition("interest", "Interest", "utility", 0, 1, 1,
                        <<UpgradeLevel(2, 1, 1, 1)>>),
      UpgradeDefinition("multishot", "Multishot", "attack", 0, 2, 4,
                        <<UpgradeLevel(1, 1, 1, 1), UpgradeLevel(1, 2, 2, 1)>>),
      UpgradeDefinition("bounce", "Bounce Shot", "attack", 0, 2, 5,
                        <<UpgradeLevel(2, 1, 1, 1), UpgradeLevel(1, 2, 2, 1)>>) }

\* Upgrades that passed UpgradeDefinition construction.
Upgrades == { u \in RawUpgrades : _validate_levels(u) }

\* UpgradeDatabase.upgrades of every catalog of at most MaxCatalogLen
\* constructed upgrades, in every listing order.
RECURSIVE SeqsOver(_, _)
SeqsOver(S, n) ==
    IF n = 0 THEN {<<>>}
    ELSE LET shorter == SeqsOver(S, n - 1)
         IN  shorter \cup
             { Append(q, u) : q \in {x \in shorter : Len(x) = n - 1},
                              u \in S } 

Range(q) == { q[i] : i \in 1..Len(q) }

Catalogs == { q \in SeqsOver(Upgrades, MaxCatalogLen) : Cardinality(Range(q)) = Len(q) }

\* UpgradeDatabase.get_upgrade: the first upgrade with that id; found = FALSE
\* stands for None.
get_upgrade(upgrades, upgrade_id) ==
    LET hits == { i \in 1..Len(upgrades) : upgrades[i].id = upgrade_id }
    IN  IF hits = {} THEN [found |-> FALSE, idx |-> 0]
        ELSE [found |-> TRUE, idx |-> CHOOSE i \in hits : \A j \in hits : i <= j]

(***************************************************************************)
(* data_loader.py: ValidationResult, validate_upgrade_data                 *)
(***************************************************************************)
\* One message of a ValidationResult: its wording, what it is about (an
\* upgrade id, a name, a category) and the number it quotes.
Msg(text, subject, n) == [text |-> text, subject |-> subject, n |-> n]

ValidationResult(errors, warnings) == [errors |-> errors, warnings |-> warnings]

\* ValidationResult.ok
ok(vr) == Len(vr.errors) = 0

\* The messages of a list of message lists, in order.
RECURSIVE Flatten(_)
Flatten(lists) ==
    IF Len(lists) = 0 THEN <<>> ELSE Head(lists) \o Flatten(Tail(lists))

\* _is_finite: every value of the model is a finite number.
_is_finite(value) == value \in Int

\* _validate_upgrade: the errors and warnings one upgrade adds.
_validate_upgrade(upgrade) ==
    LET uid == upgrade.id
        levels == upgrade.levels
        n == Len(levels)
        count == IF n # upgrade.max_level
                 THEN <<Msg("level count != max_level", uid, n)>> ELSE <<>>
        expected == 1..upgrade.max_level
        actual == { levels[i].level : i \in 1..n }
        in_order == /\ n = upgrade.max_level
                    /\ \A i \in 1..n : levels[i].level = i
        missing == IF ~in_order /\ expected \ actual # {}
                   THEN <<Msg("missing levels", uid, Cardinality(expected \ actual))>>
                   ELSE <<>>
        extra == IF ~in_order /\ actual \ expected # {}
                 THEN <<Msg("unexpected levels", uid, Cardinality(actual \ expected))>>
                 ELSE <<>>
        Numeric(i) ==
            (IF ~_is_finite(levels[i].coin_cost)
             THEN <<Msg("coin_cost is not finite", uid, levels[i].level)>> ELSE <<>>)
            \o (IF ~_is_finite(levels[i].cumulative_effect)
                THEN <<Msg("cumulative_effect is not finite", uid, levels[i].level)>>
                ELSE <<>>)
            \o (IF ~_is_finite(levels[i].effect_delta)
                THEN <<Msg("effect_delta is not finite", uid, levels[i].level)>>
                ELSE <<>>)
            \o (IF levels[i].coin_cost <= 0
                THEN <<Msg("coin_cost must be positive", uid, levels[i].level)>>
                ELSE <<>>)
        Cost(i) == IF levels[i].coin_cost <= levels[i - 1].coin_cost
                   THEN <<Msg("cost not increasing", uid, levels[i].level)>> ELSE <<>>
        Effect(i) == IF levels[i].cumulative_effect < levels[i - 1].cumulative_effect
                     THEN <<Msg("cumulative_effect decreased", uid, levels[i].level)>>
                     ELSE <<>>
        Delta(i) ==
            LET expected_delta ==
                    IF i = 1 THEN levels[i].cumulative_effect - upgrade.base_value
                    ELSE levels[i].cumulative_effect - levels[i - 1].cumulative_effect
            IN  \* |effect_delta - expected_delta| > 1e-6, on whole numbers
                IF Abs(levels[i].effect_delta - expected_delta) > 0
                THEN <<Msg("effect_delta != expected", uid, levels[i].level)>> ELSE <<>>
    IN  IF n = 0
        THEN ValidationResult(count \o <<Msg("no levels defined", uid, 0)>>, <<>>)
        ELSE ValidationResult(
                 count \o missing \o extra \o Flatten([i \in 1..n |-> Numeric(i)]) \o Flatten([i \in 1..(n - 1) |-> Cost(i + 1)]),
                 Flatten([i \in 1..(n - 1) |-> Effect(i + 1)]) \o Flatten([i \in 1..n |-> Delta(i)]))

\* The loop of validate_upgrade_data from upgrade i on.
RECURSIVE validate_loop(_, _, _, _, _, _)
validate_loop(upgrades, i, vr, ids_seen, names_seen, order_seen) ==
    IF i > Len(upgrades) THEN vr
    ELSE
      LET upgrade == upgrades[i]
          dup_id == IF upgrade.id \in ids_seen
                    THEN <<Msg("Duplicate upgrade ID", upgrade.id, 0)>> ELSE <<>>
          dup_name == IF upgrade.name \in names_seen
                      THEN <<Msg("Duplicate upgrade name", upgrade.name, 0)>> ELSE <<>>
          dup_order == IF <<upgrade.category, upgrade.display_order>> \in order_seen
                       THEN <<Msg("Duplicate display_order", upgrade.category,
                                  upgrade.display_order)>>
                       ELSE <<>>
          own == _validate_upgrade(upgrade)
      IN  validate_loop(upgrades, i + 1,
              ValidationResult(vr.errors \o dup_id \o own.errors,
                               vr.warnings \o dup_name \o dup_order \o own.warnings),
              ids_seen \cup {upgrade.id},
              names_seen \cup {upgrade.name},
              order_seen \cup {<<upgrade.category, upgrade.display_order>>})

\* The checks of validate_upgrade_data past the top-level one.
validate_upgrades(upgrades) ==
    LET vr == validate_loop(upgrades, 1, ValidationResult(<<>>, <<>>), {}, {}, {})
        few == IF Len(upgrades) < 10
               THEN <<Msg("Only a few upgrades", "", Len(upgrades))>> ELSE <<>>
        categories == { upgrades[i].category : i \in 1..Len(upgrades) }
        Coverage(k) ==
            LET expected == <<"attack", "defense", "utility">>[k]
            IN  IF expected \notin categories
                THEN <<Msg("Missing expected category", expected, 0)>> ELSE <<>>
    IN  ValidationResult(vr.errors, vr.warnings \o few \o Flatten([k \in 1..3 |-> Coverage(k)]))

\* (variant: no top-level check of an empty upgrade list)
validate_upgrade_data_empty_ok(upgrades) == validate_upgrades(upgrades)

\* validate_upgrade_data(db), db.upgrades = upgrades
validate_upgrade_data(upgrades) ==
    IF Len(upgrades) = 0
    THEN ValidationResult(<<Msg("No upgrades in database", "", 0)>>, <<>>)
    ELSE validate_upgrades(upgrades)

(***************************************************************************)
(* models.py: ScoringWeights, Profile                                      *)
(***************************************************************************)
ScoringWeights(attack, defense, utility) ==
    [attack |-> attack, defense |-> defense, utility |-> utility]

\* Field constraints of ScoringWeights: each weight within [0.0, 2.0].
ScoringWeights_valid(w) ==
    \A x \in {w.attack, w.defense, w.utility} : RLeq(Flt(0), x) /\ RLeq(x, Flt(2))

DefaultWeights == ScoringWeights(Flt(1), Flt(1), Flt(1))

\* (variant: the lookup always falls back to the neutral weight)
for_category_neutral(w, category) == Flt(1)

\* What a call hands back: a float (num), or an object of another kind;
\* errors and warnings are the lists of a ValidationResult.
Ret(kind, num, errors, warnings) ==
    [kind |-> kind, num |-> num, errors |-> errors, warnings |-> warnings]

NoRet == Ret("none", Flt(0), <<>>, <<>>)

FloatRet(x) == Ret("float", x, <<>>, <<>>)

ObjectRet(kind) == Ret(kind, Flt(0), <<>>, <<>>)

\* getattr(self, category, 1.0) on a ScoringWeights: a field's value; for a
\* name the class itself defines, that attribute (the bound method
\* for_category, the dict model_config); 1.0 for any name not found.
for_category_exec(w, category) ==
    IF category \in DOMAIN w THEN FloatRet(w[category])
    ELSE IF category = "for_category" THEN ObjectRet("method")
    ELSE IF category = "model_config" THEN ObjectRet("dict")
    ELSE FloatRet(Flt(1))

\* ScoringWeights.for_category: getattr(self, category, 1.0)
for_category(w, category) == for_category_exec(w, category).num

\* (variant: the stored level is never found)
get_level_default(p, upgrade_id) == 0

\* Profile.get_level: self.levels.get(upgrade_id, 0)
get_level(p, upgrade_id) ==
    IF upgrade_id \in DOMAIN p.levels THEN p.levels[upgrade_id] ELSE 0

EmptyMap == [x \in {} |-> 0]

\* dict(m) with m[k] = v
MapSet(m, k, v) == [x \in DOMAIN m \cup {k} |-> IF x = k THEN v ELSE m[x]]

\* dict(m) with key k popped
MapPop(m, k) == [x \in DOMAIN m \ {k} |-> m[x]]

(***************************************************************************)
(* scoring.py: compute_marginal_score                                      *)
(***************************************************************************)
\* (variant: a negative index taken as the first position)
ListPos_first(seq, i) == IF i < 0 THEN 0 ELSE i

\* Python list index: a negative index counts from the end.
ListPos(seq, i) == IF i < 0 THEN i + Len(seq) ELSE i

IndexOk(seq, i) == ListPos(seq, i) >= 0 /\ ListPos(seq, i) < Len(seq)

ListGet(seq, i) == seq[ListPos(seq, i) + 1]

Returned(value, reads, divs) ==
    [raised |-> "none", value |-> value, reads |-> reads, divs |-> divs]

Raised(exc, reads) ==
    [raised |-> exc, value |-> <<Flt(0), 0, 0, 0, 0>>, reads |-> reads, divs |-> <<>>]

\* (variant: level 0 not treated as "not yet purchased": levels[-1] is read)
CurrentEffect_lt(upgrade, current_level) ==
    IF current_level < 0 THEN upgrade.base_value
    ELSE ListGet(upgrade.levels, current_level - 1).cumulative_effect

\* The current cumulative effect (scoring.py, "current cumulative effect").
CurrentEffect(upgrade, current_level) ==
    IF current_level <= 0 THEN upgrade.base_value
    ELSE ListGet(upgrade.levels, current_level - 1).cumulative_effect

\* One execution of compute_marginal_score: what it returns or raises, the
\* (0-based) positions of upgrade.levels it indexed on the way, and the
\* divisors it divided by.
compute_marginal_score_exec(upgrade, current_level) ==
    LET levels == upgrade.levels
    IN  IF current_level >= upgrade.max_level
        THEN IF Len(levels) > 0
             THEN LET eff == ListGet(levels, -1).cumulative_effect
                  IN  Returned(<<Flt(0), 0, eff, eff, 0>>, <<ListPos(levels, -1)>>, <<>>)
             ELSE Returned(<<Flt(0), 0, upgrade.base_value, upgrade.base_value, 0>>,
                           <<>>, <<>>)
        ELSE LET r1 == IF current_level <= 0 THEN <<>> ELSE <<current_level - 1>>
                 ok1 == current_level <= 0 \/ IndexOk(levels, current_level - 1)
             IN  IF ~ok1 THEN Raised("IndexError", r1)
                 ELSE IF ~IndexOk(levels, current_level)
                 THEN Raised("IndexError", r1 \o <<current_level>>)
                 ELSE LET current_effect == CurrentEffect(upgrade, current_level)
                          next_level_data == ListGet(levels, current_level)
                          coin_cost == next_level_data.coin_cost
                          next_effect == next_level_data.cumulative_effect
                          marginal_benefit == next_effect - current_effect
                      IN  IF coin_cost <= 0
                          THEN Returned(<<Flt(0), coin_cost, current_effect, next_effect,
                                          marginal_benefit>>, r1 \o <<current_level>>, <<>>)
                          ELSE Returned(<<Rat(marginal_benefit, coin_cost), coin_cost,
                                          current_effect, next_effect, marginal_benefit>>,
                                        r1 \o <<current_level>>, <<coin_cost>>)

compute_marginal_score(upgrade, current_level) ==
    compute_marginal_score_exec(upgrade, current_level).value

(***************************************************************************)
(* scoring.py: _sort_key, _build_ranked, sorting                           *)
(***************************************************************************)
\* The display names in use, in Python's str order (by code point).
NamesInOrder ==
    <<"Armor", "Attack Speed", "Bounce Shot", "Coins", "Damage", "Health", "Interest",
      "Knockback", "Multishot", "Range", "Thorns", "Wall">>

NameRank(name) == CHOOSE i \in 1..Len(NamesInOrder) : NamesInOrder[i] = name

\* Python's a < b on two display names
StrLess(a, b) == NameRank(a) < NameRank(b)

\* (variant: affordable only with coins to spare)
_build_ranked_strict(upgrade, p, score, coin_cost, current_effect, next_effect, marginal_benefit, method) ==
    LET current_level == get_level(p, upgrade.id)
    IN  [upgrade_id |-> upgrade.id,
         upgrade_name |-> upgrade.name,
         category |-> upgrade.category,
         current_level |-> current_level,
         next_level |-> current_level + 1,
         coin_cost |-> coin_cost,
         current_effect |-> current_effect,
         next_effect |-> next_effect,
         marginal_benefit |-> marginal_benefit,
         score |-> Round12(score),
         affordable |-> (p.available_coins > coin_cost),
         scoring_method |-> method]

\* _build_ranked: the RankedUpgrade of one scored upgrade; score is rounded.
_build_ranked(upgrade, p, score, coin_cost, current_effect, next_effect, marginal_benefit, method) ==
    LET current_level == get_level(p, upgrade.id)
    IN  [upgrade_id |-> upgrade.id,
         upgrade_name |-> upgrade.name,
         category |-> upgrade.category,
         current_level |-> current_level,
         next_level |-> current_level + 1,
         coin_cost |-> coin_cost,
         current_effect |-> current_effect,
         next_effect |-> next_effect,
         marginal_benefit |-> marginal_benefit,
         score |-> Round12(score),
         affordable |-> (p.available_coins >= coin_cost),
         scoring_method |-> method]

\* (variant: the score is not negated, ranking ascending)
_sort_key_asc(r) == <<r.score, r.coin_cost, r.upgrade_name>>

\* _sort_key: (-round(score, 12), coin_cost, upgrade_name).  r.score is
\* already a 12-decimal value, which round(., 12) returns unchanged.
_sort_key(r) == <<FixNeg(r.score), r.coin_cost, r.upgrade_name>>

\* (variant: the name does not break ties)
KeyLess_no_name(k1, k2) ==
    \/ FixLess(k1[1], k2[1])
    \/ k1[1] = k2[1] /\ k1[2] < k2[2]

\* Python's tuple order on two sort keys: k1 < k2
KeyLess(k1, k2) ==
    \/ FixLess(k1[1], k2[1])
    \/ k1[1] = k2[1] /\ k1[2] < k2[2]
    \/ k1[1] = k2[1] /\ k1[2] = k2[2] /\ StrLess(k1[3], k2[3])

\* (variant: no ordering, r is put last)
InsertByKey_append(sorted, r) == Append(sorted, r)

\* Stable insertion: r goes before the first element whose key is greater.
InsertByKey(sorted, r) ==
    LET later == { i \in 1..Len(sorted) : KeyLess(_sort_key(r), _sort_key(sorted[i])) }
        pos == IF later = {} THEN Len(sorted) + 1
               ELSE CHOOSE i \in later : \A j \in later : i <= j
    IN  SubSeq(sorted, 1, pos - 1) \o <<r>> \o SubSeq(sorted, pos, Len(sorted))

\* sorted(rs, key=_sort_key) / list.sort(key=_sort_key): a stable sort.
RECURSIVE SortByKey(_)
SortByKey(rs) ==
    IF rs = <<>> THEN <<>>
    ELSE InsertByKey(SortByKey(SubSeq(rs, 1, Len(rs) - 1)), rs[Len(rs)])

\* What rank produced: the list, or the exception that escaped.
RankReturned(ranked) == [raised |-> "none", ranked |-> ranked]

RankRaised(exc) == [raised |-> exc, ranked |-> <<>>]

\* The exception compute_marginal_score raises on some non-maxed upgrade of
\* the rank loop, "none" when there is none.
LoopRaises(upgrades, p) ==
    LET bad == { i \in 1..Len(upgrades) :
                   /\ get_level(p, upgrades[i].id) < upgrades[i].max_level
                   /\ compute_marginal_score_exec(
                          upgrades[i], get_level(p, upgrades[i].id)).raised # "none" }
    IN  IF bad = {} THEN "none" ELSE "IndexError"

(***************************************************************************)
(* scoring.py: PerCategoryEngine                                           *)
(***************************************************************************)
\* (variant: the dict is keyed by upgrade id)
BestSlot_by_id(best, u) == { k \in 1..Len(best) : best[k].r.upgrade_id = u.id }

\* Where category u.category sits in best ("cat in best"), {} when absent.
BestSlot(best, u) == { k \in 1..Len(best) : best[k].cat = u.category }

\* (variant: comparison reversed)
Improves_reversed(key, best_key) == KeyLess(best_key, key)

\* key < best_key[cat]
Improves(key, best_key) == KeyLess(key, best_key)

\* The loop of PerCategoryEngine.rank from upgrade i on.  best holds one
\* entry per category in the order the categories were first inserted (the
\* dicts best and best_key).
RECURSIVE PerCategoryEngine_loop(_, _, _, _)
PerCategoryEngine_loop(upgrades, p, i, best) ==
    IF i > Len(upgrades) THEN best
    ELSE
      LET u == upgrades[i]
          current_level == get_level(p, u.id)
          ms == compute_marginal_score(u, current_level)
          candidate == _build_ranked(u, p, ms[1], ms[2], ms[3], ms[4], ms[5],
                                     "per_category_best")
          key == _sort_key(candidate)
          at == BestSlot(best, u)
          k0 == CHOOSE k \in at : TRUE
          entry == [cat |-> u.category, r |-> candidate, key |-> key]
      IN  IF current_level >= u.max_level
          THEN PerCategoryEngine_loop(upgrades, p, i + 1, best)
          ELSE IF ~RPos(ms[1])
          THEN PerCategoryEngine_loop(upgrades, p, i + 1, best)
          ELSE IF at = {}
          THEN PerCategoryEngine_loop(upgrades, p, i + 1, Append(best, entry))
          ELSE IF Improves(key, best[k0].key)
          THEN PerCategoryEngine_loop(upgrades, p, i + 1, [best EXCEPT ![k0] = entry])
          ELSE PerCategoryEngine_loop(upgrades, p, i + 1, best)

\* (variant: the winners are returned in the order of the dict)
PerCategoryEngine_rank_unsorted(upgrades, p) ==
    IF LoopRaises(upgrades, p) # "none" THEN RankRaised(LoopRaises(upgrades, p))
    ELSE LET best == PerCategoryEngine_loop(upgrades, p, 1, <<>>)
         IN  RankReturned([k \in 1..Len(best) |-> best[k].r])

\* PerCategoryEngine.rank: the winners of the loop, sorted by the shared key.
PerCategoryEngine_rank(upgrades, p) ==
    IF LoopRaises(upgrades, p) # "none" THEN RankRaised(LoopRaises(upgrades, p))
    ELSE LET best == PerCategoryEngine_loop(upgrades, p, 1, <<>>)
         IN  RankReturned(SortByKey([k \in 1..Len(best) |-> best[k].r]))

(***************************************************************************)
(* scoring.py: BalancedEngine                                              *)
(***************************************************************************)
\* (variant: exclusion decided on the weighted score)
BalancedExcluded_weighted(base_score, weighted_score) == ~RPos(weighted_score)

\* if base_score <= 0: continue
BalancedExcluded(base_score, weighted_score) == ~RPos(base_score)

\* (variant: the weight is added as a bonus)
WeightedScore_bonus(base_score, weight) == RAdd(base_score, weight)

\* weighted_score = base_score * weight
WeightedScore(base_score, weight) == RMul(base_score, weight)

\* The loop of BalancedEngine.rank from upgrade i on; weights is the
\* engine's self._weights.
RECURSIVE BalancedEngine_loop(_, _, _, _, _)
BalancedEngine_loop(weights, upgrades, p, i, results) ==
    IF i > Len(upgrades) THEN results
    ELSE
      LET u == upgrades[i]
          current_level == get_level(p, u.id)
          ms == compute_marginal_score(u, current_level)
          weight == for_category(weights, u.category)
          weighted_score == WeightedScore(ms[1], weight)
      IN  IF current_level >= u.max_level
          THEN BalancedEngine_loop(weights, upgrades, p, i + 1, results)
          ELSE IF BalancedExcluded(ms[1], weighted_score)
          THEN BalancedEngine_loop(weights, upgrades, p, i + 1, results)
          ELSE BalancedEngine_loop(weights, upgrades, p, i + 1,
                   Append(results,
                          _build_ranked(u, p, weighted_score, ms[2], ms[3], ms[4],
                                        ms[5], "balanced")))

BalancedEngine_rank(weights, upgrades, p) ==
    IF LoopRaises(upgrades, p) # "none" THEN RankRaised(LoopRaises(upgrades, p))
    ELSE RankReturned(SortByKey(BalancedEngine_loop(weights, upgrades, p, 1, <<>>)))

(***************************************************************************)
(* models.py: lab research                                                 *)
(***************************************************************************)
LabResearchLevel(level, value) == [level |-> level, value |-> value]

LabResearchDefinition(id, name, boost_type, max_level, levels) ==
    [id |-> id, name |-> name, boost_type |-> boost_type,
     max_level |-> max_level, levels |-> levels]

\* LabResearchDefinition._validate_levels
LabResearch_validate_levels(r) ==
    /\ r.max_level >= 1
    /\ Len(r.levels) = r.max_level
    /\ \A i \in 1..Len(r.levels) : r.levels[i].level = i

\* An engine's lab argument: present = FALSE stands for None.
NoLab == [present |-> FALSE, researches |-> <<>>]

LabResearchDatabase(researches) == [present |-> TRUE, researches |-> researches]

LabDamage ==
    LabResearchDefinition("lab_damage", "Damage Research", "multiplicative", 2,
        <<LabResearchLevel(1, Rat(3, 2)), LabResearchLevel(2, Flt(2))>>)

LabAttackSpeed ==
    LabResearchDefinition("lab_attack_speed", "Attack Speed Research", "additive", 1,
        <<LabResearchLevel(1, Flt(2))>>)

Labs ==
    { l \in { NoLab,
              LabResearchDatabase(<<LabDamage>>),
              LabResearchDatabase(<<LabDamage, LabAttackSpeed>>) } :
        \A i \in 1..Len(l.researches) : LabResearch_validate_levels(l.researches[i]) }

\* LabResearchDatabase.get_research: first research with that id
get_research(lab, research_id) ==
    LET hits == { i \in 1..Len(lab.researches) : lab.researches[i].id = research_id }
    IN  IF hits = {} THEN [found |-> FALSE, idx |-> 0]
        ELSE [found |-> TRUE, idx |-> CHOOSE i \in hits : \A j \in hits : i <= j]

Min(a, b) == IF a <= b THEN a ELSE b

\* (variant: one default, 1.0, whatever the boost type)
get_value_single_default(lab, research_id, level) ==
    LET g == get_research(lab, research_id)
        research == lab.researches[g.idx]
    IN  IF ~g.found THEN Flt(1)
        ELSE IF level <= 0 THEN Flt(1)
        ELSE LET idx == Min(Min(level, research.max_level), Len(research.levels)) - 1
             IN  IF idx < 0 THEN Flt(1) ELSE research.levels[idx + 1].value

\* LabResearchDatabase.get_value
get_value(lab, research_id, level) ==
    LET g == get_research(lab, research_id)
        research == lab.researches[g.idx]
    IN  IF ~g.found THEN Flt(1)
        ELSE IF level <= 0
        THEN (IF research.boost_type = "multiplicative" THEN Flt(1) ELSE Flt(0))
        ELSE LET idx == Min(Min(level, research.max_level), Len(research.levels)) - 1
             IN  IF idx < 0
                 THEN (IF research.boost_type = "multiplicative" THEN Flt(1) ELSE Flt(0))
                 ELSE research.levels[idx + 1].value

(***************************************************************************)
(* scoring.py: the DPS state and compute_dps                               *)
(***************************************************************************)
_DPS_UPGRADE_IDS ==
    {"damage", "attack_speed", "crit_chance", "crit_factor", "multishot_chance",
     "multishot_targets", "rapid_fire_chance", "bounce_chance", "bounce_targets"}

\* lab research id -> boosted workshop upgrade id, in dict order
_LAB_BOOST_MAP ==
    << <<"lab_damage", "damage">>,
       <<"lab_crit_factor", "crit_factor">>,
       <<"lab_attack_speed", "attack_speed">>,
       <<"lab_defense_flat", "defense_absolute">>,
       <<"lab_defense_percent", "defense_percent">> >>

_get_upgrade_value(upgrades, upgrade_id, level) ==
    LET g == get_upgrade(upgrades, upgrade_id)
        u == upgrades[g.idx]
    IN  IF ~g.found THEN Flt(0)
        ELSE IF level <= 0 THEN Flt(u.base_value)
        ELSE Flt(u.levels[Min(level, u.max_level)].cumulative_effect)

\* Profile.lab_levels.get(lab_id, 0)
lab_level(p, lab_id) == IF lab_id \in DOMAIN p.lab_levels THEN p.lab_levels[lab_id] ELSE 0

_get_lab_multiplier(lab, p, workshop_upgrade_id) ==
    LET hits == { i \in 1..Len(_LAB_BOOST_MAP) : _LAB_BOOST_MAP[i][2] = workshop_upgrade_id }
        first == CHOOSE i \in hits : \A j \in hits : i <= j
        lab_id == _LAB_BOOST_MAP[first][1]
        level == lab_level(p, lab_id)
        g == get_research(lab, lab_id)
    IN  IF ~lab.present THEN Flt(1)
        ELSE IF hits = {} THEN Flt(1)
        ELSE IF level <= 0
        THEN (IF g.found /\ lab.researches[g.idx].boost_type = "additive"
              THEN Flt(0) ELSE Flt(1))
        ELSE get_value(lab, lab_id, level)

\* _DPSState.__init__
_DPSState(upgrades, p, lab) ==
    LET raw == [id \in _DPS_UPGRADE_IDS |-> _get_upgrade_value(upgrades, id, get_level(p, id))]
    IN  IF lab.present
        THEN [raw EXCEPT
                !["damage"] = RMul(@, _get_lab_multiplier(lab, p, "damage")),
                !["attack_speed"] = RMul(@, _get_lab_multiplier(lab, p, "attack_speed")),
                !["crit_factor"] = RMul(@, _get_lab_multiplier(lab, p, "crit_factor"))]
        ELSE raw

\* _DPSState.with_override
with_override(state, upgrade_id, value) ==
    IF upgrade_id \in DOMAIN state THEN [state EXCEPT ![upgrade_id] = value] ELSE state

\* (variant: the share of hits without the effect is left out)
ChanceMult_scaled(chance, factor) == RMul(RDiv(chance, Flt(100)), factor)

\* 1 - (chance/100) + (chance/100) * factor
ChanceMult(chance, factor) ==
    RAdd(RSub(Flt(1), RDiv(chance, Flt(100))), RMul(RDiv(chance, Flt(100)), factor))

\* One execution of compute_dps, in exact arithmetic (Decimal keeps 28
\* significant digits): what it returns or raises, and the divisors it
\* divided by, in evaluation order.
compute_dps_exec(state) ==
    LET damage == state["damage"]
        attack_speed == state["attack_speed"]
        rf_chance == state["rapid_fire_chance"]
        hundred == Flt(100)
        one == Flt(1)
        crit_mult == ChanceMult(state["crit_chance"], state["crit_factor"])
        ms_mult == ChanceMult(state["multishot_chance"], state["multishot_targets"])
        bounce_mult == ChanceMult(state["bounce_chance"], state["bounce_targets"])
        rapid == RPos(rf_chance) /\ RPos(attack_speed)
        avg_time_between_procs ==
            RMul(RDiv(one, attack_speed), RDiv(hundred, rf_chance))
        avg_increase ==
            RDiv(RMul(Flt(_RAPID_FIRE_BONUS), Flt(_RAPID_FIRE_DURATION)),
                 RAdd(Flt(_RAPID_FIRE_DURATION), avg_time_between_procs))
        attack_speed_final ==
            IF rapid
            THEN RMul(attack_speed, RAdd(one, RDiv(avg_increase, hundred)))
            ELSE attack_speed
        divs == <<hundred, hundred, hundred, hundred, hundred, hundred>> \o
                (IF rapid
                 THEN <<attack_speed, rf_chance,
                        RAdd(Flt(_RAPID_FIRE_DURATION), avg_time_between_procs), hundred>>
                 ELSE <<>>)
    IN  IF \E i \in 1..Len(divs) : divs[i][1] = 0
        THEN [raised |-> "DivisionByZero", value |-> Flt(0), reads |-> <<>>, divs |-> divs]
        ELSE Returned(
                 RMul(RMul(RMul(RMul(damage, attack_speed_final), crit_mult), ms_mult),
                      bounce_mult),
                 <<>>, divs)

compute_dps(state) == compute_dps_exec(state).value

(***************************************************************************)
(* scoring.py: ReferenceEngine                                             *)
(***************************************************************************)
\* (variant: the benefit is not divided by the cost)
FallbackScore_benefit(marginal_benefit, coin_cost) == Flt(marginal_benefit)

\* score = marginal_benefit / coin_cost
FallbackScore(marginal_benefit, coin_cost) == Rat(marginal_benefit, coin_cost)

\* (variant: the baseline is not subtracted)
DpsScore_absolute(next_dps, current_dps, coin_cost) == RDiv(next_dps, Flt(coin_cost))

\* score = float((next_dps - current_dps) / Decimal(str(coin_cost)))
DpsScore(next_dps, current_dps, coin_cost) ==
    RDiv(RSub(next_dps, current_dps), Flt(coin_cost))

\* The loop of ReferenceEngine.rank from upgrade i on; lab is self._lab.
RECURSIVE ReferenceEngine_loop(_, _, _, _, _, _, _)
ReferenceEngine_loop(lab, upgrades, p, current_state, current_dps, i, results) ==
    IF i > Len(upgrades) THEN results
    ELSE
      LET u == upgrades[i]
          current_level == get_level(p, u.id)
          next_level_data == ListGet(u.levels, current_level)
          coin_cost == next_level_data.coin_cost
          next_effect == next_level_data.cumulative_effect
          current_effect == IF current_level <= 0 THEN u.base_value
                            ELSE ListGet(u.levels, current_level - 1).cumulative_effect
          marginal_benefit == next_effect - current_effect
          lab_mult == _get_lab_multiplier(lab, p, u.id)
          next_val_with_lab ==
              IF u.id \in {"damage", "attack_speed", "crit_factor"}
              THEN RMul(Flt(next_effect), lab_mult) ELSE Flt(next_effect)
          next_state == with_override(current_state, u.id, next_val_with_lab)
          next_dps == compute_dps(next_state)
          score == IF u.id \in _DPS_UPGRADE_IDS
                   THEN DpsScore(next_dps, current_dps, coin_cost)
                   ELSE FallbackScore(marginal_benefit, coin_cost)
          skip == \/ current_level >= u.max_level
                  \/ coin_cost <= 0
                  \/ (u.id \notin _DPS_UPGRADE_IDS /\ marginal_benefit <= 0)
                  \/ ~RPos(score)
      IN  IF skip
          THEN ReferenceEngine_loop(lab, upgrades, p, current_state, current_dps,
                                    i + 1, results)
          ELSE ReferenceEngine_loop(lab, upgrades, p, current_state, current_dps, i + 1,
                   Append(results,
                          _build_ranked(u, p, score, coin_cost, current_effect,
                                        next_effect, marginal_benefit, "reference")))

\* IndexError out of the direct indexing of u.levels in ReferenceEngine.rank
ReferenceRaises(upgrades, p) ==
    LET bad == { i \in 1..Len(upgrades) :
                   LET u == upgrades[i]
                       lv == get_level(p, u.id)
                   IN  /\ lv < u.max_level
                       /\ \/ ~IndexOk(u.levels, lv)
                          \/ (ListGet(u.levels, lv).coin_cost > 0 /\ lv > 0
                              /\ ~IndexOk(u.levels, lv - 1)) }
    IN  IF bad = {} THEN "none" ELSE "IndexError"

ReferenceEngine_rank(lab, upgrades, p) ==
    IF ReferenceRaises(upgrades, p) # "none" THEN RankRaised(ReferenceRaises(upgrades, p))
    ELSE LET current_state == _DPSState(upgrades, p, lab)
             current_dps == compute_dps(current_state)
         IN  RankReturned(SortByKey(
                 ReferenceEngine_loop(lab, upgrades, p, current_state, current_dps,
                                      1, <<>>)))

(***************************************************************************)
(* models.py: Profile.  profile_manager.py: the profile files.             *)
(*                                                                         *)
(* A file is NoFile or a text [intact, doc, len]: intact says whether the  *)
(* text is one complete JSON document, doc is that document, and len is    *)
(* the length of the text, counted in lines of the "levels" object (every  *)
(* other field has the same width on the values in use).                   *)
(***************************************************************************)
\* Bound: the clock runs from 0 to MaxTime.
MaxTime == 1

\* Profile identifiers uuid4 hands out.
ProfileIds == {"p1", "p2"}

\* An identifier no profile was ever created with.
UnknownProfileId == "p0"

\* Names handed to create_profile and duplicate_profile.
NameChoices == {"Ann", " Bob ", " "}

\* str.strip() on the names in use
strip(name) ==
    CASE name = " Bob " -> "Bob"
      [] name = " " -> ""
      [] OTHER -> name

\* None
None == [kind |-> "None"]

Profile(id, name, created_at, updated_at, available_coins, levels, lab_levels, weights, tags) ==
    [id |-> id, name |-> name, created_at |-> created_at, updated_at |-> updated_at,
     available_coins |-> available_coins, levels |-> levels, lab_levels |-> lab_levels,
     weights |-> weights, tags |-> tags]

\* datetime.isoformat(), as model_dump_json writes a datetime
isoformat(t) == <<"iso", t>>

\* datetime.fromisoformat(), as model_validate reads a datetime
fromisoformat(text) == text[2]

\* The field constraints and validators of Profile, applied to a document.
Profile_valid(raw) ==
    /\ raw.id # ""
    /\ strip(raw.name) # ""
    /\ raw.available_coins >= 0
    /\ \A upgrade_id \in DOMAIN raw.levels : raw.levels[upgrade_id] >= 0
    /\ ScoringWeights_valid(raw.weights)

\* Profile.model_validate(raw) on a document that passes the validators
model_validate(raw) ==
    [raw EXCEPT !.name = strip(@),
                !.created_at = fromisoformat(@),
                !.updated_at = fromisoformat(@)]

\* len(profile.model_dump_json(indent=2)), in lines of the levels object
JsonLen(p) == Cardinality(DOMAIN p.levels)

\* (variant: the levels are not written)
model_dump_json_nolevels(p) ==
    [intact |-> TRUE,
     doc |-> [p EXCEPT !.created_at = isoformat(@), !.updated_at = isoformat(@),
                       !.levels = EmptyMap],
     len |-> 0]

\* profile.model_dump_json(indent=2)
model_dump_json(p) ==
    [intact |-> TRUE,
     doc |-> [p EXCEPT !.created_at = isoformat(@), !.updated_at = isoformat(@)],
     len |-> JsonLen(p)]

NoFile == [kind |-> "absent"]

\* The file open(path, "w") leaves behind: no characters.
EmptyFile == [intact |-> FALSE, doc |-> <<>>, len |-> 0]

\* path.exists() for the file of profile_id in the directory fs
exists(fs, profile_id) == profile_id \in DOMAIN fs /\ fs[profile_id] # NoFile

\* json.loads(text) followed by Profile.model_validate: the Profile, or
\* None on JSONDecodeError and on ValidationError.
parse_profile(text) ==
    IF ~text.intact THEN None
    ELSE IF ~Profile_valid(text.doc) THEN None
    ELSE model_validate(text.doc)

\* ProfileManager.get_profile
get_profile(fs, profile_id) ==
    IF ~exists(fs, profile_id) THEN None ELSE parse_profile(fs[profile_id])

\* ProfileManager._save run without interruption: the text is written to
\* the .tmp file, which then replaces the profile file.
_save(fs, p) == [fs EXCEPT ![p.id] = model_dump_json(p)]

\* What a ProfileManager call did: the directory after it, the exception it
\* raised and the value it returned.
Outcome(fs, raised, ret) == [files |-> fs, raised |-> raised, ret |-> ret]

\* ProfileManager.create_profile(name), uuid4 having produced id
create_profile_exec(fs, t, id, name) ==
    LET p == Profile(id, strip(name), t, t, 0, EmptyMap, EmptyMap, DefaultWeights, <<>>)
    IN  IF ~Profile_valid([p EXCEPT !.created_at = isoformat(@),
                                    !.updated_at = isoformat(@)])
        THEN Outcome(fs, "ValidationError", None)
        ELSE Outcome(_save(fs, p), "none", p)

\* ProfileManager.save_profile(profile)
save_profile_exec(fs, t, p) ==
    LET updated == [p EXCEPT !.updated_at = t]
    IN  Outcome(_save(fs, updated), "none", updated)

\* ProfileManager.delete_profile(profile_id)
delete_profile_exec(fs, profile_id) ==
    IF ~exists(fs, profile_id) THEN Outcome(fs, "none", FALSE)
    ELSE Outcome([fs EXCEPT ![profile_id] = NoFile], "none", TRUE)

\* ProfileManager.duplicate_profile(profile_id, new_name), uuid4 having
\* produced id
duplicate_profile_exec(fs, t, id, profile_id, new_name) ==
    LET original == get_profile(fs, profile_id)
        copy == [original EXCEPT !.id = id, !.name = strip(new_name),
                                 !.created_at = t, !.updated_at = t]
    IN  IF original = None THEN Outcome(fs, "none", None)
        ELSE Outcome(_save(fs, copy), "none", copy)

\* new_levels of update_level: level 0 removes the key
new_levels(levels, upgrade_id, level) ==
    IF level = 0 THEN MapPop(levels, upgrade_id) ELSE MapSet(levels, upgrade_id, level)

\* (variant: no amount is refused)
Refused_never(amount) == FALSE

\* The test that makes update_level and update_coins raise ValueError.
Refused(amount) == amount < 0

\* ProfileManager.update_level(profile_id, upgrade_id, level)
update_level_exec(fs, t, profile_id, upgrade_id, level) ==
    LET p == get_profile(fs, profile_id)
        updated == [p EXCEPT !.levels = new_levels(@, upgrade_id, level),
                             !.updated_at = t]
    IN  IF p = None THEN Outcome(fs, "none", None)
        ELSE IF Refused(level) THEN Outcome(fs, "ValueError", None)
        ELSE Outcome(_save(fs, updated), "none", updated)

\* ProfileManager.update_coins(profile_id, coins)
update_coins_exec(fs, t, profile_id, coins) ==
    LET p == get_profile(fs, profile_id)
        updated == [p EXCEPT !.available_coins = coins, !.updated_at = t]
    IN  IF p = None THEN Outcome(fs, "none", None)
        ELSE IF Refused(coins) THEN Outcome(fs, "ValueError", None)
        ELSE Outcome(_save(fs, updated), "none", updated)

\* (variant: the weights are written together with an emptied levels map)
with_weights_reset(p, weights, t) ==
    [p EXCEPT !.weights = weights, !.updated_at = t, !.levels = EmptyMap]

\* profile.model_copy(update={"weights": weights, "updated_at": now})
with_weights(p, weights, t) == [p EXCEPT !.weights = weights, !.updated_at = t]

\* ProfileManager.update_weights(profile_id, weights)
update_weights_exec(fs, t, profile_id, weights) ==
    LET p == get_profile(fs, profile_id)
        updated == with_weights(p, weights, t)
    IN  IF p = None THEN Outcome(fs, "none", None)
        ELSE Outcome(_save(fs, updated), "none", updated)

(***************************************************************************)
(* State: the loaded catalog, the stored profile, and the call just made    *)
(* with what it returned (calls are made one after the other).             *)
(***************************************************************************)
\* Engine weights on offer: the default and a skewed setting.
WeightChoices ==
    { w \in { DefaultWeights, ScoringWeights(Rat(1, 2), Flt(2), Flt(0)) } :
        ScoringWeights_valid(w) }

\* Profile.lab_levels on offer: none; a research at level 0 next to one at
\* level 1; both researches above 0.
LabLevelChoices ==
    { EmptyMap,
      MapSet(MapSet(EmptyMap, "lab_damage", 1), "lab_attack_speed", 0),
      MapSet(MapSet(EmptyMap, "lab_damage", 2), "lab_attack_speed", 1) }

CatalogIds(upgrades) == { upgrades[i].id : i \in 1..Len(upgrades) }

NoMs == Returned(<<Flt(0), 0, 0, 0, 0>>, <<>>, <<>>)

\* The attack stats of a call that takes none: all 0.0.
NoState == [id \in _DPS_UPGRADE_IDS |-> Flt(0)]

Call(op, weights, lab, idx, level) ==
    [op |-> op, weights |-> weights, lab |-> lab, idx |-> idx, level |-> level,
     name |-> "", upgrades |-> <<>>, state |-> NoState]

\* A call that takes a string argument (a category, a research id).
CallNamed(op, weights, lab, name, level) ==
    [Call(op, weights, lab, 0, level) EXCEPT !.name = name]

NoCall == Call("none", DefaultWeights, NoLab, 0, 0)

Result(raised, ranked, ms) ==
    [raised |-> raised, ranked |-> ranked, ms |-> ms, ret |-> NoRet]

\* The result of a call that returned ret.
Returns(ret) == [Result("none", <<>>, NoMs) EXCEPT !.ret = ret]

NoResult == Result("none", <<>>, NoMs)

\* ProfileManager.create_profile
create_profile ==
    [available_coins |-> 0, levels |-> EmptyMap, lab_levels |-> EmptyMap,
     weights |-> DefaultWeights]

\* The profile directory holds no file, the clock shows 0 and no
\* ProfileManager call is running.
NoFiles == [id \in ProfileIds |-> NoFile]

StoreIdle ==
    /\ files = NoFiles
    /\ tmps = NoFiles
    /\ now = 0
    /\ procs = EmptyMap

Init ==
    /\ catalog \in Catalogs
    /\ profile = create_profile
    /\ call = NoCall
    /\ result = NoResult
    /\ StoreIdle

\* ProfileManager.update_level
update_level(upgrade_id, level) ==
    /\ call = NoCall
    /\ call' = Call("update_level", DefaultWeights, NoLab, 0, 0)
    /\ IF level < 0
       THEN /\ result' = Result("ValueError", <<>>, NoMs)
            /\ UNCHANGED profile
       ELSE /\ profile' = [profile EXCEPT !.levels =
                              IF level = 0 THEN MapPop(@, upgrade_id)
                              ELSE MapSet(@, upgrade_id, level)]
            /\ result' = NoResult
    /\ UNCHANGED <<catalog, storeVars>>

\* ProfileManager.update_coins
update_coins(coins) ==
    /\ call = NoCall
    /\ call' = Call("update_coins", DefaultWeights, NoLab, 0, 0)
    /\ IF coins < 0
       THEN /\ result' = Result("ValueError", <<>>, NoMs)
            /\ UNCHANGED profile
       ELSE /\ profile' = [profile EXCEPT !.available_coins = coins]
            /\ result' = NoResult
    /\ UNCHANGED <<catalog, storeVars>>

\* ProfileManager.update_weights
update_weights(weights) ==
    /\ call = NoCall
    /\ call' = Call("update_weights", DefaultWeights, NoLab, 0, 0)
    /\ profile' = [profile EXCEPT !.weights = weights]
    /\ result' = NoResult
    /\ UNCHANGED <<catalog, storeVars>>

\* ProfileManager.save_profile of the stored profile with other lab levels
save_profile(lab_levels) ==
    /\ call = NoCall
    /\ call' = Call("save_profile", DefaultWeights, NoLab, 0, 0)
    /\ profile' = [profile EXCEPT !.lab_levels = lab_levels]
    /\ result' = NoResult
    /\ UNCHANGED <<catalog, storeVars>>

\* compute_marginal_score(catalog[idx], level of that upgrade in the profile)
CallMarginalScore(idx) ==
    LET level == get_level(profile, catalog[idx].id)
        ex == compute_marginal_score_exec(catalog[idx], level)
    IN  /\ call = NoCall
        /\ call' = Call("compute_marginal_score", DefaultWeights, NoLab, idx, level)
        /\ result' = Result(ex.raised, <<>>, ex)
        /\ UNCHANGED <<catalog, profile, storeVars>>

\* PerCategoryEngine().rank(catalog, profile)
RankPerCategory ==
    LET out == PerCategoryEngine_rank(catalog, profile)
    IN  /\ call = NoCall
        /\ call' = Call("per_category_best", DefaultWeights, NoLab, 0, 0)
        /\ result' = Result(out.raised, out.ranked, NoMs)
        /\ UNCHANGED <<catalog, profile, storeVars>>

\* BalancedEngine(weights).rank(catalog, profile)
RankBalanced(weights) ==
    LET out == BalancedEngine_rank(weights, catalog, profile)
    IN  /\ call = NoCall
        /\ call' = Call("balanced", weights, NoLab, 0, 0)
        /\ result' = Result(out.raised, out.ranked, NoMs)
        /\ UNCHANGED <<catalog, profile, storeVars>>

\* ReferenceEngine(lab).rank(catalog, profile)
RankReference(lab) ==
    LET out == ReferenceEngine_rank(lab, catalog, profile)
    IN  /\ call = NoCall
        /\ call' = Call("reference", DefaultWeights, lab, 0, 0)
        /\ result' = Result(out.raised, out.ranked, NoMs)
        /\ UNCHANGED <<catalog, profile, storeVars>>

\* A call that takes upgrade documents.
CallOn(op, upgrades) ==
    [Call(op, DefaultWeights, NoLab, 0, 0) EXCEPT !.upgrades = upgrades]

\* UpgradeDefinition(**raw): construction from a document; the model
\* validator raises ValueError, which pydantic hands on as ValidationError.
ConstructUpgrade(raw) ==
    /\ call = NoCall
    /\ call' = CallOn("UpgradeDefinition", <<raw>>)
    /\ result' = IF _validate_levels(raw) THEN Returns(ObjectRet("UpgradeDefinition"))
                  ELSE Result("ValidationError", <<>>, NoMs)
    /\ UNCHANGED <<catalog, profile, storeVars>>

\* Research ids asked for: two the databases may hold, one they never hold.
ResearchIdChoices == {"lab_damage", "lab_attack_speed", "lab_crit_factor"}

\* lab.get_value(research_id, level)
CallGetValue(lab, research_id, level) ==
    /\ call = NoCall
    /\ lab.present
    /\ call' = CallNamed("get_value", DefaultWeights, lab, research_id, level)
    /\ result' = Returns(FloatRet(get_value(lab, research_id, level)))
    /\ UNCHANGED <<catalog, profile, storeVars>>

\* Category strings handed to for_category: the three known ones, two
\* unknown ones, and two that name attributes of the class.
CategoryChoices ==
    {"attack", "defense", "utility", "economy", "", "for_category", "model_config"}

\* weights.for_category(category) on the stored profile's weights
CallForCategory(category) ==
    /\ call = NoCall
    /\ call' = CallNamed("for_category", profile.weights, NoLab, category, 0)
    /\ result' = Returns(for_category_exec(profile.weights, category))
    /\ UNCHANGED <<catalog, profile, storeVars>>

\* validate_upgrade_data on the loaded catalog
CallValidate ==
    LET vr == validate_upgrade_data(catalog)
    IN  /\ call = NoCall
        /\ call' = Call("validate_upgrade_data", DefaultWeights, NoLab, 0, 0)
        /\ result' = Returns(Ret("ValidationResult", Flt(0), vr.errors, vr.warnings))
        /\ UNCHANGED <<catalog, profile, storeVars>>

\* The caller takes the return value; the next call can be made.
Return ==
    /\ call # NoCall
    /\ call' = NoCall
    /\ result' = NoResult
    /\ UNCHANGED <<catalog, profile, storeVars>>

Next ==
    \/ \E id \in CatalogIds(catalog), level \in -1..MaxProfileLevel :
           update_level(id, level)
    \/ \E coins \in {-1, 0, MaxCoins} : update_coins(coins)
    \/ \E w \in WeightChoices : update_weights(w)
    \/ \E ll \in LabLevelChoices : save_profile(ll)
    \/ \E idx \in 1..Len(catalog) : CallMarginalScore(idx)
    \/ RankPerCategory
    \/ \E w \in WeightChoices : RankBalanced(w)
    \/ \E lab \in Labs : RankReference(lab)
    \/ Return

Spec == Init /\ [][Next]_vars

(***************************************************************************)
(* The data model on its own: the methods of models.py and the validator   *)
(* of data_loader.py applied to a loaded catalog and a stored profile.     *)
(***************************************************************************)
NextModels ==
    \/ \E w \in WeightChoices : update_weights(w)
    \/ \E category \in CategoryChoices : CallForCategory(category)
    \/ CallValidate
    \/ \E raw \in RawUpgrades : ConstructUpgrade(raw)
    \/ \E lab \in Labs, id \in ResearchIdChoices, level \in -1..MaxProfileLevel :
           CallGetValue(lab, id, level)
    \/ Return

SpecModels == Init /\ [][NextModels]_vars

(***************************************************************************)
(* compute_dps on its own: the function applied to attack stats.           *)
(***************************************************************************)
\* Attack stats on offer.  Every Decimal operation of compute_dps is exact
\* on these values (no quotient needs more than 28 digits).
DamageChoices == {Flt(0), Flt(3), Flt(10)}

AttackSpeedChoices == {Flt(-1), Flt(0), Flt(1), Flt(4)}

RapidFireChoices == {Flt(0), Flt(25), Flt(100)}

ChanceChoices == {Flt(0), Flt(50)}

FactorChoices == {Flt(0), Rat(6, 5), Flt(3)}

\* A _DPSState with the given slots.
DPSStateOf(damage, attack_speed, crit_chance, crit_factor, multishot_chance, multishot_targets, rapid_fire_chance, bounce_chance, bounce_targets) ==
    [id \in _DPS_UPGRADE_IDS |->
        CASE id = "damage" -> damage
          [] id = "attack_speed" -> attack_speed
          [] id = "crit_chance" -> crit_chance
          [] id = "crit_factor" -> crit_factor
          [] id = "multishot_chance" -> multishot_chance
          [] id = "multishot_targets" -> multishot_targets
          [] id = "rapid_fire_chance" -> rapid_fire_chance
          [] id = "bounce_chance" -> bounce_chance
          [] id = "bounce_targets" -> bounce_targets]

\* compute_dps(state)
CallComputeDps(state) ==
    LET ex == compute_dps_exec(state)
    IN  /\ call = NoCall
        /\ call' = [Call("compute_dps", DefaultWeights, NoLab, 0, 0) EXCEPT !.state = state]
        /\ result' = [Result(ex.raised, <<>>, NoMs) EXCEPT
                         !.ret = Ret("Decimal", ex.value, <<>>, <<>>),
                         !.ms = [NoMs EXCEPT !.raised = ex.raised, !.divs = ex.divs]]
        /\ UNCHANGED <<catalog, profile, storeVars>>

\* No catalog is loaded: compute_dps reads attack stats only.
InitDps ==
    /\ catalog = <<>>
    /\ profile = create_profile
    /\ call = NoCall
    /\ result = NoResult
    /\ StoreIdle

NextDps ==
    \/ \E damage \in DamageChoices, attack_speed \in AttackSpeedChoices,
          crit_chance \in ChanceChoices, crit_factor \in FactorChoices,
          multishot_chance \in ChanceChoices, multishot_targets \in FactorChoices,
          rapid_fire_chance \in RapidFireChoices,
          bounce_chance \in ChanceChoices, bounce_targets \in FactorChoices :
           CallComputeDps(DPSStateOf(damage, attack_speed, crit_chance, crit_factor,
                                     multishot_chance, multishot_targets,
                                     rapid_fire_chance, bounce_chance, bounce_targets))
    \/ Return

SpecDps == InitDps /\ [][NextDps]_vars

(***************************************************************************)
(* The profile store on its own: ProfileManager calls made one after the   *)
(* other on one directory, each run to its end.                            *)
(***************************************************************************)
\* Profile identifiers handed to the calls.
ProfileIdChoices == ProfileIds \cup {UnknownProfileId}

\* Upgrade identifiers and levels handed to update_level.
UpgradeIdChoices == {"damage", "health"}

LevelChoices == {-1, 0, 2}

CoinChoices == {-1, 0, MaxCoins}

StoreCall(op, profile_id, upgrade_id, level, coins, weights, name) ==
    [op |-> op, profile_id |-> profile_id, upgrade_id |-> upgrade_id, level |-> level,
     coins |-> coins, weights |-> weights, name |-> name]

\* A call on a profile that takes no further argument.
StoreCallOn(op, profile_id) == StoreCall(op, profile_id, "", 0, 0, DefaultWeights, "")

\* The call ends: the directory it leaves, what it raised or returned.
Finish(c, out) ==
    /\ call = NoCall
    /\ call' = c
    /\ files' = out.files
    /\ result' = [Result(out.raised, <<>>, NoMs) EXCEPT !.ret = out.ret]
    /\ UNCHANGED <<catalog, profile, tmps, now, procs>>

\* Time passes between two calls.
Tick ==
    /\ call = NoCall
    /\ now < MaxTime
    /\ now' = now + 1
    /\ UNCHANGED <<catalog, profile, call, result, files, tmps, procs>>

\* ProfileManager.create_profile(name); uuid4 yields an identifier not in use
ProfileManager_create_profile(name) ==
    \E id \in ProfileIds :
        /\ ~exists(files, id)
        /\ Finish(StoreCall("create_profile", id, "", 0, 0, DefaultWeights, name),
                  create_profile_exec(files, now, id, name))

\* ProfileManager.get_profile(profile_id)
ProfileManager_get_profile(profile_id) ==
    Finish(StoreCallOn("get_profile", profile_id),
           Outcome(files, "none", get_profile(files, profile_id)))

\* ProfileManager.save_profile(profile) with the profile as loaded
ProfileManager_save_profile(profile_id) ==
    /\ get_profile(files, profile_id) # None
    /\ Finish(StoreCallOn("save_profile", profile_id),
              save_profile_exec(files, now, get_profile(files, profile_id)))

\* ProfileManager.delete_profile(profile_id)
ProfileManager_delete_profile(profile_id) ==
    Finish(StoreCallOn("delete_profile", profile_id),
           delete_profile_exec(files, profile_id))

\* ProfileManager.duplicate_profile(profile_id, new_name)
ProfileManager_duplicate_profile(profile_id, new_name) ==
    \E id \in ProfileIds :
        /\ ~exists(files, id)
        /\ Finish(StoreCall("duplicate_profile", profile_id, "", 0, 0, DefaultWeights,
                            new_name),
                  duplicate_profile_exec(files, now, id, profile_id, new_name))

\* ProfileManager.update_level(profile_id, upgrade_id, level)
ProfileManager_update_level(profile_id, upgrade_id, level) ==
    Finish(StoreCall("update_level", profile_id, upgrade_id, level, 0, DefaultWeights, ""),
           update_level_exec(files, now, profile_id, upgrade_id, level))

\* ProfileManager.update_coins(profile_id, coins)
ProfileManager_update_coins(profile_id, coins) ==
    Finish(StoreCall("update_coins", profile_id, "", 0, coins, DefaultWeights, ""),
           update_coins_exec(files, now, profile_id, coins))

\* ProfileManager.update_weights(profile_id, weights)
ProfileManager_update_weights(profile_id, weights) ==
    Finish(StoreCall("update_weights", profile_id, "", 0, 0, weights, ""),
           update_weights_exec(files, now, profile_id, weights))

\* An empty directory; no catalog is needed.
InitStore ==
    /\ catalog = <<>>
    /\ profile = create_profile
    /\ call = NoCall
    /\ result = NoResult
    /\ StoreIdle

NextStore ==
    \/ Tick
    \/ \E name \in NameChoices : ProfileManager_create_profile(name)
    \/ \E id \in ProfileIdChoices : ProfileManager_get_profile(id)
    \/ \E id \in ProfileIdChoices : ProfileManager_save_profile(id)
    \/ \E id \in ProfileIdChoices : ProfileManager_delete_profile(id)
    \/ \E id \in ProfileIdChoices, name \in NameChoices :
           ProfileManager_duplicate_profile(id, name)
    \/ \E id \in ProfileIdChoices, u \in UpgradeIdChoices, level \in LevelChoices :
           ProfileManager_update_level(id, u, level)
    \/ \E id \in ProfileIdChoices, coins \in CoinChoices :
           ProfileManager_update_coins(id, coins)
    \/ \E id \in ProfileIdChoices, w \in WeightChoices :
           ProfileManager_update_weights(id, w)
    \/ Return

SpecStore == InitStore /\ [][NextStore]_vars

(***************************************************************************)
(* app.py: the endpoints that create and change a profile, served one      *)
(* request after the other over the loaded catalog.                        *)
(***************************************************************************)
\* float("nan"): no comparison with it holds.
NaN == <<0, 0>>

\* Python's min(a, b) and max(a, b) on floats: the first argument unless
\* the second compares smaller (greater).
float_min(a, b) == IF RLess(b, a) THEN b ELSE a

float_max(a, b) == IF RLess(a, b) THEN b ELSE a

\* max(0.0, min(2.0, x))
clamp_weight(x) == float_max(Flt(0), float_min(Flt(2), x))

Max(a, b) == IF a >= b THEN a ELSE b

\* (variant: no upper limit)
clamp_level_floor(level, max_level) == Max(0, level)

\* max(0, min(level, upgrade.max_level))
clamp_level(level, max_level) == Max(0, Min(level, max_level))

\* Form values of the level, coins and weights endpoints.
LevelInputs == {-1, 0, 1, MaxProfileLevel}

CoinInputs == {-1, 0, MaxCoins}

WeightInputs ==
    { <<Flt(1), Flt(1), Flt(1)>>, <<Flt(-1), Rat(1, 2), Flt(3)>>, <<NaN, Flt(0), Flt(2)>> }

\* Upgrade ids of the form: those of the catalog and one it does not hold.
UpgradeIdInputs == CatalogIds(catalog) \cup {"nope"}

\* Profile ids of the URL: the one uuid4 hands out here and an unknown one.
AppProfileId == "p1"

ProfileIdInputs == {AppProfileId, UnknownProfileId}

Request(route, profile_id, upgrade_id, level, coins, weights, name) ==
    StoreCall(route, profile_id, upgrade_id, level, coins, weights, name)

\* The response of a request: abort(status), or the rendered profile with
\* the ranking where one is computed.
Respond(c, fs, raised, ret, ranked) ==
    /\ call = NoCall
    /\ call' = c
    /\ files' = fs
    /\ result' = [Result(raised, ranked, NoMs) EXCEPT !.ret = ret]
    /\ UNCHANGED <<catalog, profile, tmps, now, procs>>

\* The engine view of a stored Profile.
AsEngineProfile(p) ==
    [available_coins |-> p.available_coins, levels |-> p.levels,
     lab_levels |-> p.lab_levels, weights |-> p.weights]

\* POST /profile/new
profile_new(name) ==
    LET c == Request("/profile/new", "", "", 0, 0, DefaultWeights, name)
        out == create_profile_exec(files, now, AppProfileId, strip(name))
    IN  IF strip(name) = "" THEN Respond(c, files, "none", None, <<>>)
        ELSE /\ ~exists(files, AppProfileId)
             /\ Respond(c, out.files, out.raised, out.ret, <<>>)

\* POST /profile/<profile_id>/delete
profile_delete(profile_id) ==
    Respond(Request("/profile/<profile_id>/delete", profile_id, "", 0, 0, DefaultWeights, ""),
            delete_profile_exec(files, profile_id).files, "none", None, <<>>)

\* The body shared by the two level endpoints; recommend says whether the
\* ranking is computed.
level_endpoint(route, recommend, profile_id, upgrade_id, form_level) ==
    LET c == Request(route, profile_id, upgrade_id, form_level, 0, DefaultWeights, "")
        g == get_upgrade(catalog, upgrade_id)
        level == clamp_level(form_level, catalog[g.idx].max_level)
        out == update_level_exec(files, now, profile_id, upgrade_id, level)
        rk == BalancedEngine_rank(out.ret.weights, catalog, AsEngineProfile(out.ret))
    IN  IF ~g.found THEN Respond(c, files, "400", None, <<>>)
        ELSE IF out.ret = None THEN Respond(c, out.files, "404", None, <<>>)
        ELSE IF ~recommend THEN Respond(c, out.files, "none", out.ret, <<>>)
        ELSE Respond(c, out.files, rk.raised, out.ret, rk.ranked)

\* POST /profile/<profile_id>/level
app_update_level(profile_id, upgrade_id, form_level) ==
    level_endpoint("/profile/<profile_id>/level", FALSE, profile_id, upgrade_id, form_level)

\* POST /profile/<profile_id>/level-recommend
update_level_recommend(profile_id, upgrade_id, form_level) ==
    level_endpoint("/profile/<profile_id>/level-recommend", TRUE, profile_id, upgrade_id,
                   form_level)

\* The body shared by the two coins endpoints.
coins_endpoint(route, recommend, profile_id, form_coins) ==
    LET c == Request(route, profile_id, "", 0, form_coins, DefaultWeights, "")
        coins == Max(0, form_coins)
        out == update_coins_exec(files, now, profile_id, coins)
        rk == BalancedEngine_rank(out.ret.weights, catalog, AsEngineProfile(out.ret))
    IN  IF out.ret = None THEN Respond(c, out.files, "404", None, <<>>)
        ELSE IF ~recommend THEN Respond(c, out.files, "none", out.ret, <<>>)
        ELSE Respond(c, out.files, rk.raised, out.ret, rk.ranked)

\* POST /profile/<profile_id>/coins
app_update_coins(profile_id, form_coins) ==
    coins_endpoint("/profile/<profile_id>/coins", FALSE, profile_id, form_coins)

\* POST /profile/<profile_id>/coins-and-recommend
update_coins_and_recommend(profile_id, form_coins) ==
    coins_endpoint("/profile/<profile_id>/coins-and-recommend", TRUE, profile_id, form_coins)

\* POST /profile/<profile_id>/weights
app_update_weights(profile_id, form) ==
    LET weights == ScoringWeights(clamp_weight(form[1]), clamp_weight(form[2]),
                                  clamp_weight(form[3]))
        c == Request("/profile/<profile_id>/weights", profile_id, "", 0, 0, weights, "")
        out == update_weights_exec(files, now, profile_id, weights)
        rk == BalancedEngine_rank(weights, catalog, AsEngineProfile(out.ret))
    IN  IF out.ret = None THEN Respond(c, out.files, "404", None, <<>>)
        ELSE Respond(c, out.files, rk.raised, out.ret, rk.ranked)

\* GET /profile/<profile_id>/recommend
recommend(profile_id) ==
    LET c == Request("/profile/<profile_id>/recommend", profile_id, "", 0, 0,
                     DefaultWeights, "")
        p == get_profile(files, profile_id)
        rk == BalancedEngine_rank(p.weights, catalog, AsEngineProfile(p))
    IN  IF p = None THEN Respond(c, files, "404", None, <<>>)
        ELSE Respond(c, files, rk.raised, p, rk.ranked)

\* The constructed upgrade of the pool with this id and name.
UpgradeNamed(id, name) == CHOOSE u \in Upgrades : u.id = id /\ u.name = name

\* Catalogs load_upgrades may have loaded: none of the upgrades; two
\* categories; two upgrades sharing an id, the first with the smaller
\* max_level; two upgrades sharing a name.
AppCatalogs ==
    { <<>>,
      <<UpgradeNamed("damage", "Damage"), UpgradeNamed("coins", "Coins")>>,
      <<UpgradeNamed("health", "Armor"), UpgradeNamed("health", "Health")>>,
      <<UpgradeNamed("health", "Health"), UpgradeNamed("health_regen", "Health")>> }

InitApp ==
    /\ catalog \in AppCatalogs
    /\ profile = create_profile
    /\ call = NoCall
    /\ result = NoResult
    /\ StoreIdle

NextApp ==
    \/ \E name \in NameChoices : profile_new(name)
    \/ \E id \in ProfileIdInputs : profile_delete(id)
    \/ \E id \in ProfileIdInputs, u \in UpgradeIdInputs, level \in LevelInputs :
           app_update_level(id, u, level)
    \/ \E id \in ProfileIdInputs, u \in UpgradeIdInputs, level \in LevelInputs :
           update_level_recommend(id, u, level)
    \/ \E id \in ProfileIdInputs, coins \in CoinInputs : app_update_coins(id, coins)
    \/ \E id \in ProfileIdInputs, coins \in CoinInputs :
           update_coins_and_recommend(id, coins)
    \/ \E id \in ProfileIdInputs, form \in WeightInputs : app_update_weights(id, form)
    \/ \E id \in ProfileIdInputs : recommend(id)
    \/ Return

SpecApp == InitApp /\ [][NextApp]_vars

(***************************************************************************)
(* ProfileManager calls running at the same time on one profile, with      *)
(* steps at the file operations: path.exists(), read_text(), the open()    *)
(* and the write-and-close of tmp.write_text(), and tmp.rename(path).      *)
(* POSIX file semantics: an open file is the file itself, whatever name it *)
(* has or gets; rename replaces the target in one step.                    *)
(***************************************************************************)
\* The profile both calls work on, as an earlier session left it.
InitialProfile ==
    Profile("p1", "Ann", 0, 0, 0, MapSet(EmptyMap, "health", 2), EmptyMap,
            DefaultWeights, <<>>)

\* The mutations on offer.  They write documents of different lengths; one
\* is refused and one names a profile that does not exist.
MutationCalls ==
    { StoreCall("update_level", "p1", "damage", 2, 0, DefaultWeights, ""),
      StoreCall("update_level", "p1", "health", 0, 0, DefaultWeights, ""),
      StoreCall("update_level", "p1", "damage", -1, 0, DefaultWeights, ""),
      StoreCall("update_level", "p1", "health", 1, 0, DefaultWeights, ""),
      StoreCall("update_coins", "p1", "", 0, MaxCoins, DefaultWeights, ""),
      StoreCall("update_coins", "p2", "", 0, MaxCoins, DefaultWeights, ""),
      StoreCall("update_weights", "p1", "", 0, 0,
                ScoringWeights(Rat(1, 2), Flt(2), Flt(0)), ""),
      StoreCallOn("save_profile", "p1") }

\* The copy a mutation builds from the profile p it loaded, at time t.
updated_copy(c, p, t) ==
    CASE c.op = "update_level" ->
             [p EXCEPT !.levels = new_levels(@, c.upgrade_id, c.level), !.updated_at = t]
      [] c.op = "update_coins" -> [p EXCEPT !.available_coins = c.coins, !.updated_at = t]
      [] c.op = "update_weights" -> with_weights(p, c.weights, t)
      [] c.op = "save_profile" -> [p EXCEPT !.updated_at = t]

\* A call that has just been made.  save_profile is handed the profile as
\* loaded before and goes straight to _save.
Started(c) ==
    [call |-> c,
     pc |-> IF c.op = "save_profile" THEN "open" ELSE "exists",
     loaded |-> None,
     updated |-> IF c.op = "save_profile" THEN updated_copy(c, InitialProfile, 1) ELSE None,
     fd |-> "closed", raised |-> "none", ret |-> None]

\* The call of process p ends.
Ended(p, raised, ret) ==
    [procs[p] EXCEPT !.pc = "done", !.raised = raised, !.ret = ret, !.fd = "closed"]

\* (variant: the text is written to the profile file itself)
with_suffix_kept(place) == place

\* path.with_suffix(".tmp"): the file next to the profile file that _save
\* writes; every call on one profile names the same one.
with_suffix(place) == "tmp"

\* The text of a file after text is written at offset 0 over old.
Overlay(old, text) ==
    IF text.len >= old.len THEN text
    ELSE [intact |-> FALSE, doc |-> <<>>, len |-> old.len]

\* path.exists() of get_profile
StepExists(p) ==
    /\ procs[p].pc = "exists"
    /\ procs' = [procs EXCEPT ![p] =
                    IF exists(files, procs[p].call.profile_id)
                    THEN [@ EXCEPT !.pc = "read"]
                    ELSE Ended(p, "none", None)]
    /\ UNCHANGED <<catalog, profile, call, result, files, tmps, now>>

\* path.read_text() with the rest of get_profile, and for a mutation the
\* test of the amount and the copy with the new timestamp.
StepRead(p) ==
    LET c == procs[p].call
        loaded == parse_profile(files[c.profile_id])
    IN  /\ procs[p].pc = "read"
        /\ procs' = [procs EXCEPT ![p] =
               IF ~exists(files, c.profile_id) THEN Ended(p, "FileNotFoundError", None)
               ELSE IF c.op = "get_profile" \/ loaded = None THEN Ended(p, "none", loaded)
               ELSE IF c.op \in {"update_level", "update_coins"}
                       /\ Refused(IF c.op = "update_level" THEN c.level ELSE c.coins)
               THEN Ended(p, "ValueError", None)
               ELSE [@ EXCEPT !.pc = "open", !.loaded = loaded,
                              !.updated = updated_copy(c, loaded, now)]]
        /\ UNCHANGED <<catalog, profile, call, result, files, tmps, now>>

\* tmp.write_text, first half: open(tmp, "w") creates the file or empties it
StepOpen(p) ==
    LET id == procs[p].call.profile_id
        tmp == with_suffix("path")
    IN  /\ procs[p].pc = "open"
        /\ tmps' = IF tmp = "tmp" THEN [tmps EXCEPT ![id] = EmptyFile] ELSE tmps
        /\ files' = IF tmp = "path" THEN [files EXCEPT ![id] = EmptyFile] ELSE files
        /\ procs' = [procs EXCEPT ![p] = [@ EXCEPT !.pc = "write", !.fd = tmp]]
        /\ UNCHANGED <<catalog, profile, call, result, now>>

\* tmp.write_text, second half: the text is written to the open file and
\* the file is closed
StepWrite(p) ==
    LET id == procs[p].call.profile_id
        text == model_dump_json(procs[p].updated)
    IN  /\ procs[p].pc = "write"
        /\ tmps' = IF procs[p].fd = "tmp"
                   THEN [tmps EXCEPT ![id] = Overlay(@, text)] ELSE tmps
        /\ files' = IF procs[p].fd = "path"
                    THEN [files EXCEPT ![id] = Overlay(@, text)] ELSE files
        /\ procs' = [procs EXCEPT ![p] = [@ EXCEPT !.pc = "rename", !.fd = "closed"]]
        /\ UNCHANGED <<catalog, profile, call, result, now>>

\* tmp.rename(path): the .tmp file takes the place of the profile file, and
\* so does every open handle on it; FileNotFoundError without a .tmp file
StepRename(p) ==
    LET id == procs[p].call.profile_id
        moved(fd) == CASE fd = "tmp" -> "path"
                       [] fd = "path" -> "unlinked"
                       [] OTHER -> fd
    IN  /\ procs[p].pc = "rename"
        /\ IF tmps[id] = NoFile
           THEN /\ procs' = [procs EXCEPT ![p] = Ended(p, "FileNotFoundError", None)]
                /\ UNCHANGED <<files, tmps>>
           ELSE /\ files' = [files EXCEPT ![id] = tmps[id]]
                /\ tmps' = [tmps EXCEPT ![id] = NoFile]
                /\ procs' = [q \in DOMAIN procs |->
                                IF q = p THEN Ended(p, "none", procs[p].updated)
                                ELSE [procs[q] EXCEPT !.fd = moved(@)]]
        /\ UNCHANGED <<catalog, profile, call, result, now>>

\* The directory holds the profile; the clock shows 1.
InitFiles ==
    /\ catalog = <<>>
    /\ profile = create_profile
    /\ call = NoCall
    /\ result = NoResult
    /\ files = [NoFiles EXCEPT !["p1"] = model_dump_json(InitialProfile)]
    /\ tmps = NoFiles
    /\ now = 1

\* One get_profile next to one mutation.
InitReadWrite ==
    /\ InitFiles
    /\ \E c \in MutationCalls :
           procs = [p \in {"reader", "writer"} |->
                       IF p = "reader" THEN Started(StoreCallOn("get_profile", "p1"))
                       ELSE Started(c)]

\* Two mutations.
InitWriteWrite ==
    /\ InitFiles
    /\ \E c1, c2 \in MutationCalls :
           procs = [p \in {"first", "second"} |->
                       IF p = "first" THEN Started(c1) ELSE Started(c2)]

NextSteps ==
    \/ \E p \in DOMAIN procs : StepExists(p)
    \/ \E p \in DOMAIN procs : StepRead(p)
    \/ \E p \in DOMAIN procs : StepOpen(p)
    \/ \E p \in DOMAIN procs : StepWrite(p)
    \/ \E p \in DOMAIN procs : StepRename(p)

SpecReadWrite == InitReadWrite /\ [][NextSteps]_vars

SpecWriteWrite == InitWriteWrite /\ [][NextSteps]_vars

(***************************************************************************)
(* The engines on catalogs in every listing order, among them catalogs     *)
(* with upgrades that share a display name.                                *)
(***************************************************************************)
\* An upgrade of another category named like damage, with the score and
\* cost of damage at its first level.
ThornDamage ==
    UpgradeDefinition("thorn_damage", "Damage", "defense", 0, 1, 1,
                      MakeLevels(0, <<<<1, 1>>>>, 1))

ListingUpgrades ==
    { u \in Upgrades : u.name \in {"Damage", "Attack Speed", "Health"} } \cup {ThornDamage}

\* Every listing of up to three of these upgrades, no id twice.
ListingCatalogs ==
    { q \in SeqsOver(ListingUpgrades, 3) : Cardinality(CatalogIds(q)) = Len(q) }

InitListing ==
    /\ catalog \in ListingCatalogs
    /\ profile = create_profile
    /\ call = NoCall
    /\ result = NoResult
    /\ StoreIdle

NextListing ==
    \/ \E id \in CatalogIds(catalog), level \in -1..MaxProfileLevel :
           update_level(id, level)
    \/ \E coins \in {-1, 0, MaxCoins} : update_coins(coins)
    \/ RankPerCategory
    \/ \E w \in WeightChoices : RankBalanced(w)
    \/ \E lab \in Labs : RankReference(lab)
    \/ Return

SpecListing == InitListing /\ [][NextListing]_vars

(***************************************************************************)
(* Properties of compute_marginal_score                                    *)
(***************************************************************************)
\* The entry of u.levels whose level number is n.
EntryAt(u, n) == CHOOSE lv \in Range(u.levels) : lv.level = n

MarginalCalled == call.op = "compute_marginal_score"

\* C1: at or beyond max_level compute_marginal_score returns score 0, cost 0,
\* marginal benefit 0 and current_effect = next_effect = the cumulative
\* effect of the last level, reading no level entry but the last one.
C1_MaxedIsZero ==
    (MarginalCalled /\ call.level >= catalog[call.idx].max_level) =>
        LET u == catalog[call.idx]
            last == EntryAt(u, u.max_level).cumulative_effect
        IN  /\ result.ms.raised = "none"
            /\ result.ms.value = <<Flt(0), 0, last, last, 0>>
            /\ \A k \in 1..Len(result.ms.reads) : result.ms.reads[k] = Len(u.levels) - 1

\* C1 witness: a call with a level beyond max_level on a two-level upgrade
\* whose levels differ in effect.
C1_Witness ==
    /\ MarginalCalled
    /\ call.level > catalog[call.idx].max_level
    /\ catalog[call.idx].max_level = 2
    /\ result.ms.value[3] # catalog[call.idx].levels[1].cumulative_effect

\* C2: below max_level, current_effect is base_value at level 0 and else the
\* effect recorded at current_level; next_effect and cost come from the
\* entry numbered current_level + 1; marginal_benefit is their difference
\* and score * cost = marginal_benefit.
C2_BelowMax ==
    (MarginalCalled /\ call.level >= 0 /\ call.level < catalog[call.idx].max_level) =>
        LET u == catalog[call.idx]
            v == result.ms.value
            nxt == EntryAt(u, call.level + 1)
        IN  /\ result.ms.raised = "none"
            /\ v[3] = (IF call.level = 0 THEN u.base_value
                       ELSE EntryAt(u, call.level).cumulative_effect)
            /\ v[4] = nxt.cumulative_effect
            /\ v[2] = nxt.coin_cost
            /\ v[5] = v[4] - v[3]
            /\ v[1][1] * v[2] = v[5] * v[1][2]

\* C2 witness: a mid-level call (level 1 of 2) with a score that is not a
\* whole number.
C2_Witness ==
    /\ MarginalCalled
    /\ call.level = 1
    /\ catalog[call.idx].max_level = 2
    /\ result.ms.value[1][2] > 1

\* C3: compute_marginal_score is total on constructed upgrades: every index
\* into levels is within [0, len - 1], every divisor is positive, a 5-tuple
\* is returned and nothing is raised.
C3_Total ==
    MarginalCalled =>
        LET u == catalog[call.idx]
        IN  /\ call.level >= 0
            /\ result.ms.raised = "none"
            /\ result.raised = "none"
            /\ Len(result.ms.value) = 5
            /\ \A k \in 1..Len(result.ms.reads) :
                   result.ms.reads[k] >= 0 /\ result.ms.reads[k] <= Len(u.levels) - 1
            /\ \A k \in 1..Len(result.ms.divs) : result.ms.divs[k] > 0

\* C3 witness: a call that indexed two entries and divided.
C3_Witness ==
    /\ MarginalCalled
    /\ Len(result.ms.reads) = 2
    /\ Len(result.ms.divs) = 1

(***************************************************************************)
(* Properties of the ranking engines                                       *)
(***************************************************************************)
Ranked == call.op \in {"per_category_best", "balanced", "reference"}

\* The level the stored profile records for an upgrade id (0 when absent).
LevelOf(id) == IF id \in DOMAIN profile.levels THEN profile.levels[id] ELSE 0

\* Entry e of a ranking was built from upgrade u.
Matches(e, u) ==
    e.upgrade_id = u.id /\ e.upgrade_name = u.name /\ e.category = u.category

\* The raw marginal score of catalog upgrade k at the profile's level.
RawScore(k) == compute_marginal_score(catalog[k], LevelOf(catalog[k].id))[1]

\* Catalog upgrade k is not maxed and has a positive raw marginal score.
Eligible(k) ==
    /\ LevelOf(catalog[k].id) < catalog[k].max_level
    /\ RawScore(k)[1] > 0

\* C4: in the output of each engine, adjacent entries are in order of score
\* descending, then coin_cost ascending, then upgrade_name ascending.
C4_SortedOutput ==
    Ranked =>
        \A i \in 1..(Len(result.ranked) - 1) :
            LET a == result.ranked[i]
                b == result.ranked[i + 1]
            IN  /\ ~FixLess(a.score, b.score)
                /\ a.score = b.score => a.coin_cost <= b.coin_cost
                /\ (a.score = b.score /\ a.coin_cost = b.coin_cost) =>
                       ~StrLess(b.upgrade_name, a.upgrade_name)

\* C4 witness: a reference ranking whose two entries tie on score and
\* differ in cost, the second upgrade of the catalog ranked first.
C4_Witness ==
    /\ call.op = "reference"
    /\ Len(result.ranked) = 2
    /\ result.ranked[1].score = result.ranked[2].score
    /\ result.ranked[1].coin_cost < result.ranked[2].coin_cost
    /\ Matches(result.ranked[1], catalog[2])
    /\ ~Matches(result.ranked[1], catalog[1])

\* C5: PerCategoryEngine.rank returns no two entries of one category, and
\* every entry is built from an upgrade that is below max_level in the
\* profile and has a positive marginal score.
C5_OnePerCategory ==
    call.op = "per_category_best" =>
        /\ \A i, j \in 1..Len(result.ranked) :
               i # j => result.ranked[i].category # result.ranked[j].category
        /\ \A i \in 1..Len(result.ranked) :
               \E k \in 1..Len(catalog) :
                   Matches(result.ranked[i], catalog[k]) /\ Eligible(k)

\* C5 witness: two eligible upgrades of one category, one entry returned.
C5_Witness ==
    /\ call.op = "per_category_best"
    /\ Len(catalog) = 2
    /\ catalog[1].category = catalog[2].category
    /\ Eligible(1) /\ Eligible(2)
    /\ Len(result.ranked) = 1

\* Entry with (score s2, cost c2, name n2) ranks strictly before the one
\* with (s1, c1, n1): higher rounded score, then lower cost, then smaller name.
RanksBefore(s2, c2, n2, s1, c1, n1) ==
    \/ FixLess(s1, s2)
    \/ s1 = s2 /\ c2 < c1
    \/ s1 = s2 /\ c1 = c2 /\ StrLess(n2, n1)

NextCost(k) == EntryAt(catalog[k], LevelOf(catalog[k].id) + 1).coin_cost

\* C6: PerCategoryEngine.rank has an entry for a category exactly when the
\* category has an eligible upgrade, and the entry is an eligible upgrade
\* of the category that no other eligible upgrade of it ranks before.
C6_BestOfCategory ==
    call.op = "per_category_best" =>
        /\ \A cat \in {"attack", "defense", "utility"} :
               (\E i \in 1..Len(result.ranked) : result.ranked[i].category = cat)
               <=> (\E k \in 1..Len(catalog) : catalog[k].category = cat /\ Eligible(k))
        /\ \A i \in 1..Len(result.ranked) :
               LET e == result.ranked[i]
               IN  \E k \in 1..Len(catalog) :
                       /\ Matches(e, catalog[k]) /\ Eligible(k)
                       /\ e.score = Round12(RawScore(k))
                       /\ e.coin_cost = NextCost(k)
                       /\ \A k2 \in 1..Len(catalog) :
                              (catalog[k2].category = e.category /\ Eligible(k2)) =>
                                  ~RanksBefore(Round12(RawScore(k2)), NextCost(k2),
                                               catalog[k2].name,
                                               e.score, e.coin_cost, e.upgrade_name)

\* C6 witness: the later of two eligible upgrades of a category wins, on
\* cost, and another category has no entry.
C6_Witness ==
    /\ call.op = "per_category_best"
    /\ Len(catalog) = 2
    /\ catalog[1].category = catalog[2].category
    /\ Eligible(1) /\ Eligible(2)
    /\ Round12(RawScore(1)) = Round12(RawScore(2))
    /\ NextCost(2) < NextCost(1)
    /\ Len(result.ranked) = 1
    /\ Matches(result.ranked[1], catalog[2])

\* Every upgrade of the catalog is at or beyond max_level in the profile.
AllMaxed ==
    \A k \in 1..Len(catalog) :
        /\ catalog[k].id \in DOMAIN profile.levels
        /\ profile.levels[catalog[k].id] >= catalog[k].max_level

\* C7: with every upgrade maxed in the profile, each engine returns the
\* empty list.
C7_MaxedProfileEmpty ==
    (Ranked /\ AllMaxed) => (result.raised = "none" /\ result.ranked = <<>>)

\* C7 witness: a reference ranking with a lab database over two maxed
\* upgrades, one of them beyond its max_level.
C7_Witness ==
    /\ call.op = "reference"
    /\ call.lab.present
    /\ Len(catalog) = 2
    /\ AllMaxed
    /\ \E k \in 1..Len(catalog) : profile.levels[catalog[k].id] > catalog[k].max_level
    /\ result.ranked = <<>>

\* C8: the upgrades in BalancedEngine.rank's output are exactly the
\* eligible upgrades of the catalog, one entry each, whatever the weights.
C8_BalancedEligible ==
    call.op = "balanced" =>
        /\ Len(result.ranked) = Cardinality({ k \in 1..Len(catalog) : Eligible(k) })
        /\ \A k \in 1..Len(catalog) :
               Eligible(k) => \E i \in 1..Len(result.ranked) :
                                  Matches(result.ranked[i], catalog[k])
        /\ \A i \in 1..Len(result.ranked) :
               \E k \in 1..Len(catalog) :
                   Matches(result.ranked[i], catalog[k]) /\ Eligible(k)

\* C8 witness: a weight of 0 keeps an eligible upgrade in the output while
\* a non-maxed upgrade without positive raw score is left out.
C8_Witness ==
    /\ call.op = "balanced"
    /\ Len(catalog) = 2
    /\ Len(result.ranked) = 1
    /\ call.weights[result.ranked[1].category] = Flt(0)
    /\ \E k \in 1..Len(catalog) :
           LevelOf(catalog[k].id) < catalog[k].max_level /\ ~Eligible(k)

\* Every entry of a balanced ranking has score round(raw * w[category], 12).
ScoredWith(w) ==
    \A i \in 1..Len(result.ranked) :
        \E k \in 1..Len(catalog) :
            /\ Matches(result.ranked[i], catalog[k]) /\ Eligible(k)
            /\ result.ranked[i].score =
                   Round12(RMul(RawScore(k), w[catalog[k].category]))

\* C9 as stated: the weight is the one the profile's ScoringWeights holds.
C9_ProfileWeights == call.op = "balanced" => ScoredWith(profile.weights)

\* C9: every entry of BalancedEngine.rank has score raw * weight rounded to
\* 12 decimals, the weight being the one the engine's ScoringWeights (given
\* to its constructor) holds for the upgrade's category.
C9_EngineWeights == call.op = "balanced" => ScoredWith(call.weights)

\* C9 witness: engine weights that differ from the profile's, and an entry
\* whose weighted score needs rounding.
C9_Witness ==
    /\ call.op = "balanced"
    /\ call.weights # profile.weights
    /\ \E i \in 1..Len(result.ranked) :
           /\ result.ranked[i].score[2] % 1000 # 0
           /\ call.weights[result.ranked[i].category] # Flt(1)

\* C10: no entry of a category whose weight is 0 has a score > 0 in
\* BalancedEngine.rank's output.
C10_ZeroWeightNoScore ==
    call.op = "balanced" =>
        \A i \in 1..Len(result.ranked) :
            call.weights[result.ranked[i].category] = Flt(0) =>
                ~FixPos(result.ranked[i].score)

\* C10 witness: an entry of a zero-weight category next to an entry with a
\* positive score.
C10_Witness ==
    /\ call.op = "balanced"
    /\ Len(result.ranked) = 2
    /\ call.weights[result.ranked[2].category] = Flt(0)
    /\ FixPos(result.ranked[1].score)

(***************************************************************************)
(* Properties of BalancedEngine with neutral weights, and determinism       *)
(***************************************************************************)
\* The positions of the eligible upgrades of the catalog.
EligibleSet == { k \in 1..Len(catalog) : Eligible(k) }

\* C11: with every engine weight equal to 1.0, BalancedEngine.rank returns
\* the eligible upgrades, each once and scored with its raw marginal score
\* (at the 12 decimals every score is held to), in the order of the shared
\* key: score descending, cost ascending, name ascending, and catalog order
\* among upgrades equal in all three.
C11_EqualWeightsRawOrder ==
    (call.op = "balanced" /\ \A c \in DOMAIN call.weights : call.weights[c] = Flt(1)) =>
        /\ result.raised = "none"
        /\ \E f \in [1..Len(result.ranked) -> EligibleSet] :
               /\ \A k \in EligibleSet : \E i \in 1..Len(result.ranked) : f[i] = k
               /\ \A i \in 1..Len(result.ranked) :
                      /\ Matches(result.ranked[i], catalog[f[i]])
                      /\ result.ranked[i].score = Round12(RawScore(f[i]))
                      /\ result.ranked[i].coin_cost = NextCost(f[i])
               /\ \A i, j \in 1..Len(result.ranked) :
                      i < j =>
                          /\ f[i] # f[j]
                          /\ ~RanksBefore(Round12(RawScore(f[j])), NextCost(f[j]),
                                          catalog[f[j]].name,
                                          Round12(RawScore(f[i])), NextCost(f[i]),
                                          catalog[f[i]].name)
                          /\ (/\ Round12(RawScore(f[i])) = Round12(RawScore(f[j]))
                              /\ NextCost(f[i]) = NextCost(f[j])
                              /\ catalog[f[i]].name = catalog[f[j]].name) => f[i] < f[j]

\* C11 witness: neutral engine weights while the profile holds other
\* weights; the second upgrade of the catalog has the higher raw score, a
\* score that is not a whole number, and is returned first.
C11_Witness ==
    /\ call.op = "balanced"
    /\ call.weights = DefaultWeights
    /\ profile.weights # DefaultWeights
    /\ Len(catalog) = 2
    /\ Len(result.ranked) = 2
    /\ Matches(result.ranked[1], catalog[2])
    /\ ~Matches(result.ranked[1], catalog[1])
    /\ RLess(RawScore(1), RawScore(2))
    /\ RawScore(1)[2] > 1

(***************************************************************************)
(* Properties of ScoringWeights.for_category                               *)
(***************************************************************************)
\* C13: for_category returns the configured weight for attack, defense and
\* utility and, for every other category string, the float 1.0; it never
\* raises.
C13_ForCategoryTotal ==
    call.op = "for_category" =>
        /\ result.raised = "none"
        /\ result.ret.kind = "float"
        /\ result.ret.num =
               (IF call.name \in {"attack", "defense", "utility"}
                THEN call.weights[call.name] ELSE Flt(1))

(***************************************************************************)
(* Properties of catalog validation                                        *)
(***************************************************************************)
\* C14: a catalog handed to a ranking engine has no blocking error: every
\* rank call the application makes (BalancedEngine.rank on the loaded
\* catalog) is on a catalog for which validate_upgrade_data reports an
\* empty error list.
C14_RankedCatalogValid ==
    call.op = "balanced" => ok(validate_upgrade_data(catalog))

\* Some message of the list has this wording.
HasMsg(msgs, text) == \E i \in 1..Len(msgs) : msgs[i].text = text

\* Two upgrades of the catalog agree on what F gives.
Shared(F(_)) ==
    \E i, j \in 1..Len(catalog) : i < j /\ F(catalog[i]) = F(catalog[j])

IdOf(u) == u.id

NameOf(u) == u.name

OrderOf(u) == <<u.category, u.display_order>>

\* Some upgrade of the catalog has a level (from the second on) at which P holds.
SomeLevel(P(_, _)) ==
    \E k \in 1..Len(catalog) : \E i \in 1..Len(catalog[k].levels) : P(catalog[k], i)

EffectDrops(u, i) ==
    i > 1 /\ u.levels[i].cumulative_effect < u.levels[i - 1].cumulative_effect

DeltaOff(u, i) ==
    u.levels[i].effect_delta #
        u.levels[i].cumulative_effect -
            (IF i = 1 THEN u.base_value ELSE u.levels[i - 1].cumulative_effect)

\* C15: on a catalog of constructed upgrades validate_upgrade_data reports
\* an error exactly when the catalog is empty or two upgrades share an id;
\* a shared name, a shared display_order within a category, fewer than 10
\* upgrades, a missing known category, a decreasing cumulative effect and
\* an effect_delta mismatch each add a warning and no error.
C15_ErrorsIffEmptyOrDuplicateId ==
    call.op = "validate_upgrade_data" =>
        LET vr == result.ret
        IN  /\ result.raised = "none"
            /\ ~ok(vr) <=> (Len(catalog) = 0 \/ Shared(IdOf))
            /\ Len(catalog) > 0 =>
                   /\ \A i \in 1..Len(vr.errors) :
                          vr.errors[i].text = "Duplicate upgrade ID"
                   /\ HasMsg(vr.warnings, "Duplicate upgrade name") <=> Shared(NameOf)
                   /\ HasMsg(vr.warnings, "Duplicate display_order") <=> Shared(OrderOf)
                   /\ HasMsg(vr.warnings, "Only a few upgrades") <=> Len(catalog) < 10
                   /\ HasMsg(vr.warnings, "Missing expected category") <=>
                          (\E c \in {"attack", "defense", "utility"} :
                               \A k \in 1..Len(catalog) : catalog[k].category # c)
                   /\ HasMsg(vr.warnings, "cumulative_effect decreased") <=>
                          SomeLevel(EffectDrops)
                   /\ HasMsg(vr.warnings, "effect_delta != expected") <=>
                          SomeLevel(DeltaOff)

\* C15 witness: a catalog without error although two upgrades share a name
\* and a display_order within their category, categories are missing and
\* the upgrades are few.
C15_Witness ==
    /\ call.op = "validate_upgrade_data"
    /\ ok(result.ret)
    /\ Len(catalog) = 2
    /\ HasMsg(result.ret.warnings, "Duplicate upgrade name")
    /\ HasMsg(result.ret.warnings, "Duplicate display_order")
    /\ HasMsg(result.ret.warnings, "Missing expected category")
    /\ HasMsg(result.ret.warnings, "Only a few upgrades")

(***************************************************************************)
(* Properties of UpgradeDefinition construction                            *)
(***************************************************************************)
\* The fields of a document have their types' ranges: max_level >= 1, level
\* numbers >= 1, costs > 0 (all numbers of the model are finite).
WellTyped(u) ==
    /\ u.max_level >= 1
    /\ \A i \in 1..Len(u.levels) : u.levels[i].level >= 1 /\ u.levels[i].coin_cost > 0

\* C16: with well-typed fields, constructing an UpgradeDefinition succeeds
\* exactly when the level list has max_level entries, the entry at position
\* i carries level number i, and coin_cost strictly increases from each
\* level to the next; the cumulative effects play no part.
C16_ConstructionIff ==
    (call.op = "UpgradeDefinition" /\ WellTyped(call.upgrades[1])) =>
        LET u == call.upgrades[1]
            n == Len(u.levels)
        IN  /\ result.raised \in {"none", "ValidationError"}
            /\ result.raised = "none" <=>
                   /\ n = u.max_level
                   /\ \A i \in 1..n : u.levels[i].level = i
                   /\ \A i \in 1..n : \A j \in 1..n :
                          j = i + 1 => u.levels[i].coin_cost < u.levels[j].coin_cost

\* C16 witness: a document whose cumulative effect decreases from level 1
\* to level 2 is constructed.
C16_Witness ==
    /\ call.op = "UpgradeDefinition"
    /\ result.raised = "none"
    /\ Len(call.upgrades[1].levels) = 2
    /\ EffectDrops(call.upgrades[1], 2)

(***************************************************************************)
(* Properties of ReferenceEngine                                           *)
(***************************************************************************)
\* Catalog upgrade k is below max_level in the profile.
NotMaxed(k) == LevelOf(catalog[k].id) < catalog[k].max_level

\* The entries of the ranking built from catalog upgrade k.
EntriesOf(k) == { i \in 1..Len(result.ranked) : Matches(result.ranked[i], catalog[k]) }

\* C17: in ReferenceEngine.rank a non-maxed upgrade outside the DPS subset
\* is listed exactly when its raw marginal score is > 0, and then once, with
\* that score (at 12 decimals) and the cost of its next level.
C17_ReferenceFallback ==
    call.op = "reference" =>
        \A k \in 1..Len(catalog) :
            (NotMaxed(k) /\ catalog[k].id \notin _DPS_UPGRADE_IDS) =>
                /\ (EntriesOf(k) # {}) <=> RPos(RawScore(k))
                /\ Cardinality(EntriesOf(k)) <= 1
                /\ \A i \in EntriesOf(k) :
                       /\ result.ranked[i].score = Round12(RawScore(k))
                       /\ result.ranked[i].coin_cost = NextCost(k)

\* C17 witness: a lab database is in use; of two non-maxed upgrades outside
\* the DPS subset one has a raw score that is not positive and is left out,
\* the other is listed.
C17_Witness ==
    /\ call.op = "reference"
    /\ call.lab.present
    /\ Len(catalog) = 2
    /\ \A k \in 1..2 : NotMaxed(k) /\ catalog[k].id \notin _DPS_UPGRADE_IDS
    /\ ~RPos(RawScore(1))
    /\ Len(result.ranked) = 1
    /\ Matches(result.ranked[1], catalog[2])

\* The stats a lab research boosts in the DPS state.
BoostedStats == {"damage", "attack_speed", "crit_factor"}

\* The lab boost of the call for stat s.
Boost(s) == IF s \in BoostedStats THEN _get_lab_multiplier(call.lab, profile, s) ELSE Flt(1)

\* The player's current value of stat s: the effect at the profile's level
\* (base_value at level 0) of the catalog's upgrade s, 0 without one.
CurrentStat(s) ==
    LET ks == { k \in 1..Len(catalog) : catalog[k].id = s }
        u == catalog[CHOOSE k \in ks : \A k2 \in ks : k <= k2]
    IN  IF ks = {} THEN 0
        ELSE IF LevelOf(s) <= 0 THEN u.base_value
        ELSE EntryAt(u, Min(LevelOf(s), u.max_level)).cumulative_effect

\* The baseline state: every stat at its current, lab-boosted value.
BaselineStats == [s \in _DPS_UPGRADE_IDS |-> RMul(Flt(CurrentStat(s)), Boost(s))]

\* The DPS efficiency of catalog upgrade k: the composite of the baseline
\* with stat k alone set to its boosted next-level value, less the
\* composite of the baseline, per coin of the next level's cost.
Efficiency(k) ==
    LET u == catalog[k]
        nxt == EntryAt(u, LevelOf(u.id) + 1)
        NewStats == [BaselineStats EXCEPT
                        ![u.id] = RMul(Flt(nxt.cumulative_effect), Boost(u.id))]
    IN  RDiv(RSub(compute_dps(NewStats), compute_dps(BaselineStats)), Flt(nxt.coin_cost))

\* C18: in ReferenceEngine.rank a non-maxed upgrade of the DPS subset is
\* listed exactly when (newComposite - baselineComposite) / cost is > 0,
\* and then with that score: the baseline is the composite of the current
\* lab-boosted stats and the new composite differs in that one stat only,
\* set to its next-level value under the same lab boost.
C18_ReferenceDpsScore ==
    call.op = "reference" =>
        \A k \in 1..Len(catalog) :
            (NotMaxed(k) /\ catalog[k].id \in _DPS_UPGRADE_IDS) =>
                /\ (EntriesOf(k) # {}) <=> RPos(Efficiency(k))
                /\ Cardinality(EntriesOf(k)) <= 1
                /\ \A i \in EntriesOf(k) :
                       /\ result.ranked[i].score = Round12(Efficiency(k))
                       /\ result.ranked[i].coin_cost = NextCost(k)

\* C18 witness: with a lab boost above 1 in force, two DPS upgrades are
\* listed, the first with a score other than its raw marginal score.
C18_Witness ==
    /\ call.op = "reference"
    /\ call.lab.present
    /\ Len(catalog) = 2
    /\ \A k \in 1..2 : NotMaxed(k) /\ catalog[k].id \in _DPS_UPGRADE_IDS
    /\ \E s \in BoostedStats : RLess(Flt(1), Boost(s))
    /\ Len(result.ranked) = 2
    /\ LevelOf(catalog[1].id) > 0
    /\ \E k \in 1..2 : /\ Matches(result.ranked[1], catalog[k])
                       /\ result.ranked[1].score # Round12(RawScore(k))

\* Every lab level of the profile is absent or 0.
NoResearch == \A id \in DOMAIN profile.lab_levels : profile.lab_levels[id] = 0

\* C19: for a profile whose lab levels are all absent or 0,
\* ReferenceEngine.rank with a lab database returns the list, scores
\* included, that ReferenceEngine.rank without a lab database returns.
C19_LabNeutralDefault ==
    (call.op = "reference" /\ call.lab.present /\ NoResearch) =>
        /\ result.raised = ReferenceEngine_rank(NoLab, catalog, profile).raised
        /\ result.ranked = ReferenceEngine_rank(NoLab, catalog, profile).ranked

(***************************************************************************)
(* Properties of LabResearchDatabase.get_value                             *)
(***************************************************************************)
\* The researches of the call's database that carry the id asked for.
Asked == { r \in Range(call.lab.researches) : r.id = call.name }

\* C20: get_value returns 1.0 when no research has the id; for a known
\* research at level <= 0, 1.0 if multiplicative and 0.0 if additive; at
\* level >= 1 the value recorded at level min(level, max_level); it never
\* raises.
C20_GetValue ==
    call.op = "get_value" =>
        /\ result.raised = "none"
        /\ result.ret.kind = "float"
        /\ Asked = {} => result.ret.num = Flt(1)
        /\ \A r \in Asked :
               /\ (call.level <= 0 /\ r.boost_type = "multiplicative") =>
                      result.ret.num = Flt(1)
               /\ (call.level <= 0 /\ r.boost_type = "additive") =>
                      result.ret.num = Flt(0)
               /\ call.level >= 1 =>
                      \E lv \in Range(r.levels) :
                          /\ lv.level = (IF call.level < r.max_level
                                         THEN call.level ELSE r.max_level)
                          /\ result.ret.num = lv.value

\* C20 witness: a level above max_level of a two-level research yields the
\* value of its last level, which differs from that of its first.
C20_Witness ==
    /\ call.op = "get_value"
    /\ \E r \in Asked :
           /\ r.max_level = 2
           /\ call.level > r.max_level
           /\ result.ret.num = r.levels[2].value
           /\ result.ret.num # r.levels[1].value

(***************************************************************************)
(* Properties of compute_dps                                               *)
(***************************************************************************)
\* The expected-value multiplier of a chance c (in percent) and a factor f.
Expected(c, f) ==
    LET share == Rat(c[1], 100 * c[2])
    IN  RAdd(RSub(Flt(1), share), RMul(share, f))

\* attackSpeed x (1 + (4 / (1 + (1/attackSpeed) x (100/rapidFireChance))) / 100)
EffectiveAttackSpeed(as, rf) ==
    IF rf[1] > 0 /\ as[1] > 0
    THEN LET wait == RMul(Rat(as[2], as[1]), Rat(100 * rf[2], rf[1]))
             boost == RDiv(Flt(4), RAdd(Flt(1), wait))
         IN  RMul(as, RAdd(Flt(1), RDiv(boost, Flt(100))))
    ELSE as

\* C21: compute_dps returns damage x effectiveAttackSpeed x critMult x
\* multishotMult x bounceMult, each chance multiplier being
\* 1 - c/100 + (c/100) x factor; with every chance stat at 0 the result is
\* damage x attackSpeed; and no call divides by zero or raises.
C21_ComputeDps ==
    call.op = "compute_dps" =>
        LET s == call.state
            product ==
                RMul(RMul(RMul(RMul(s["damage"],
                    EffectiveAttackSpeed(s["attack_speed"], s["rapid_fire_chance"])),
                    Expected(s["crit_chance"], s["crit_factor"])),
                    Expected(s["multishot_chance"], s["multishot_targets"])),
                    Expected(s["bounce_chance"], s["bounce_targets"]))
            chances == {"crit_chance", "multishot_chance", "rapid_fire_chance",
                        "bounce_chance"}
        IN  /\ result.raised = "none"
            /\ result.ret.kind = "Decimal"
            /\ result.ret.num = product
            /\ (\A c \in chances : s[c][1] = 0) =>
                   result.ret.num = RMul(s["damage"], s["attack_speed"])
            /\ \A i \in 1..Len(result.ms.divs) : result.ms.divs[i][1] # 0

\* compute_dps was called with rapid fire, a critical chance and a multishot
\* chance in play: 10 x 4.128 x 2 x 2 = 165.12
C21_Witness ==
    /\ call.op = "compute_dps"
    /\ call.state["damage"] = Flt(10)
    /\ call.state["attack_speed"] = Flt(4)
    /\ call.state["rapid_fire_chance"] = Flt(100)
    /\ call.state["crit_chance"] = Flt(50)
    /\ call.state["crit_factor"] = Flt(3)
    /\ call.state["multishot_chance"] = Flt(50)
    /\ call.state["multishot_targets"] = Flt(3)
    /\ call.state["bounce_chance"] = Flt(0)
    /\ result.ret.num = Rat(16512, 100)
    /\ Len(result.ms.divs) = 10


(***************************************************************************)
(* Properties of the RankedUpgrade entries                                 *)
(***************************************************************************)
\* C22: every entry an engine returns has current_level = the profile's
\* level of its upgrade (0 when absent), next_level = current_level + 1 <=
\* max_level, coin_cost = the catalog cost of level next_level,
\* marginal_benefit = next_effect - current_effect, affordable exactly when
\* available_coins >= coin_cost, and scoring_method = the engine's name.
C22_RankedConsistent ==
    Ranked =>
        \A i \in 1..Len(result.ranked) :
            LET e == result.ranked[i]
            IN  /\ e.current_level = LevelOf(e.upgrade_id)
                /\ e.next_level = e.current_level + 1
                /\ e.marginal_benefit = e.next_effect - e.current_effect
                /\ e.affordable <=> (profile.available_coins >= e.coin_cost)
                /\ e.scoring_method = call.op
                /\ \E k \in 1..Len(catalog) :
                       /\ Matches(e, catalog[k])
                       /\ e.next_level <= catalog[k].max_level
                       /\ e.coin_cost = EntryAt(catalog[k], e.next_level).coin_cost

\* An engine returned two entries for a profile with two coins: one upgrade
\* already bought once whose next level costs exactly the two coins, and
\* one that costs more.
C22_Witness ==
    /\ Ranked
    /\ Len(result.ranked) = 2
    /\ profile.available_coins = 2
    /\ \E i, j \in 1..2 :
           /\ result.ranked[i].current_level = 1
           /\ result.ranked[i].coin_cost = 2
           /\ result.ranked[i].affordable
           /\ result.ranked[j].coin_cost = 3
           /\ ~result.ranked[j].affordable

(***************************************************************************)
(* Properties of ProfileManager                                            *)
(***************************************************************************)
Mutations == {"update_level", "update_coins", "update_weights"}

\* The profile of the call just made, as get_profile loads it from fs.
Stored(fs) == get_profile(fs, call'.profile_id)

\* C23: on an existing profile, update_level with level < 0 and
\* update_coins with coins < 0 raise ValueError and leave every file of the
\* directory, and so the stored levels, coins, weights and updated_at, as
\* they were before the call.
C23_NegativeRejected ==
    [][(/\ call = NoCall
        /\ \/ call'.op = "update_level" /\ call'.level < 0
           \/ call'.op = "update_coins" /\ call'.coins < 0
        /\ Stored(files) # None)
       => (/\ result'.raised = "ValueError"
           /\ files' = files
           /\ tmps' = tmps
           /\ Stored(files') = Stored(files))]_vars

\* update_level with level -1 raised ValueError on a profile that holds a
\* level, coins and weights other than the defaults.
C23_Witness ==
    /\ call.op = "update_level"
    /\ call.level = -1
    /\ result.raised = "ValueError"
    /\ get_profile(files, call.profile_id) # None
    /\ get_profile(files, call.profile_id).levels # EmptyMap
    /\ get_profile(files, call.profile_id).available_coins = MaxCoins
    /\ get_profile(files, call.profile_id).weights # DefaultWeights

\* C24: once update_level(id, u, l), update_coins(id, c) or
\* update_weights(id, w) has returned a profile, get_profile(id) on the
\* directory as the call left it returns a snapshot with get_level(u) = l,
\* available_coins = c, or weights = w; a level of 0 is stored as absence
\* of the key.
C24_ReadAfterWrite ==
    (call.op \in Mutations /\ result.raised = "none" /\ result.ret # None) =>
        LET snapshot == get_profile(files, call.profile_id)
        IN  /\ snapshot # None
            /\ snapshot = result.ret
            /\ call.op = "update_level" =>
                   /\ get_level(snapshot, call.upgrade_id) = call.level
                   /\ call.level = 0 =>
                          call.upgrade_id \notin DOMAIN files[call.profile_id].doc.levels
            /\ call.op = "update_coins" => snapshot.available_coins = call.coins
            /\ call.op = "update_weights" => snapshot.weights = call.weights

\* update_level to 0 returned a profile that still holds the level of the
\* other upgrade.
C24_Witness ==
    /\ call.op = "update_level"
    /\ call.level = 0
    /\ call.upgrade_id = "damage"
    /\ result.ret # None
    /\ DOMAIN result.ret.levels = {"health"}
    /\ result.ret.updated_at > result.ret.created_at

\* The fields of p that update_level may not touch, with the levels other
\* than that of upgrade_id.
BesideLevel(p, upgrade_id) ==
    [p EXCEPT !.updated_at = 0, !.levels = MapPop(@, upgrade_id)]

BesideCoins(p) == [p EXCEPT !.updated_at = 0, !.available_coins = 0]

BesideWeights(p) == [p EXCEPT !.updated_at = 0, !.weights = DefaultWeights]

\* C29: update_level changes only the entry of its upgrade in the levels of
\* its profile and updated_at; update_coins only available_coins and
\* updated_at; update_weights only weights and updated_at; every other
\* field and every other file stay as they were, and a call naming a
\* profile that does not exist returns None and changes nothing.
C29_Frame ==
    [][(call = NoCall /\ call'.op \in Mutations) =>
          IF Stored(files) = None
          THEN result'.ret = None /\ result'.raised = "none"
               /\ files' = files /\ tmps' = tmps
          ELSE /\ \A other \in DOMAIN files \ {call'.profile_id} :
                      files'[other] = files[other]
               /\ tmps' = tmps
               /\ Stored(files') # None
               /\ call'.op = "update_level" =>
                      BesideLevel(Stored(files'), call'.upgrade_id)
                          = BesideLevel(Stored(files), call'.upgrade_id)
               /\ call'.op = "update_coins" =>
                      BesideCoins(Stored(files')) = BesideCoins(Stored(files))
               /\ call'.op = "update_weights" =>
                      BesideWeights(Stored(files')) = BesideWeights(Stored(files))]_vars

\* update_weights returned a profile that holds levels and coins, next to
\* another stored profile.
C29_Witness ==
    /\ call.op = "update_weights"
    /\ result.ret # None
    /\ result.ret.weights # DefaultWeights
    /\ result.ret.levels # EmptyMap
    /\ result.ret.available_coins = MaxCoins
    /\ \A id \in ProfileIds : exists(files, id)

(***************************************************************************)
(* Properties of the application endpoints                                 *)
(***************************************************************************)
\* The level, coins and weights of the stored document of profile id are
\* within the limits of the catalog.
WithinLimits(id) ==
    LET doc == files[id].doc
    IN  /\ \A u \in DOMAIN doc.levels :
               /\ get_upgrade(catalog, u).found
               /\ doc.levels[u] >= 1
               /\ doc.levels[u] <= catalog[get_upgrade(catalog, u).idx].max_level
        /\ doc.available_coins >= 0
        /\ \A c \in DOMAIN doc.weights :
               RLeq(Flt(0), doc.weights[c]) /\ RLeq(doc.weights[c], Flt(2))

LevelRoutes == {"/profile/<profile_id>/level", "/profile/<profile_id>/level-recommend"}

\* C25: after any sequence of requests every key of the stored levels is an
\* upgrade id of the catalog with a value in [1, max_level], available_coins
\* is >= 0 and every weight is in [0, 2]; and a level request naming an
\* unknown upgrade id changes no file.
C25_Clamped ==
    /\ [](\A id \in DOMAIN files : exists(files, id) => WithinLimits(id))
    /\ [][(call = NoCall /\ call'.op \in LevelRoutes
           /\ ~get_upgrade(catalog, call'.upgrade_id).found)
          => (files' = files /\ result'.raised = "400")]_vars

\* A level request with a level above max_level was answered with the
\* profile, which holds clamped coins and weights from earlier requests.
C25_Witness ==
    /\ call.op \in LevelRoutes
    /\ call.level = MaxProfileLevel
    /\ result.raised = "none"
    /\ result.ret # None
    /\ result.ret.levels[call.upgrade_id] < call.level
    /\ result.ret.weights.attack = Flt(2)
    /\ result.ret.weights.defense = Flt(0)

(***************************************************************************)
(* Properties of concurrent ProfileManager calls                           *)
(***************************************************************************)
\* C26: a get_profile running next to one mutation of the same existing
\* profile returns, at every interleaving of the steps, the complete
\* version before the mutation or the complete version after it, never
\* None and never a partly written profile; and it raises nothing.
C26_AtomicRead ==
    ("reader" \in DOMAIN procs /\ procs["reader"].pc = "done") =>
        /\ procs["reader"].raised = "none"
        /\ procs["reader"].ret # None
        /\ \/ procs["reader"].ret = InitialProfile
           \/ /\ procs["writer"].updated # None
              /\ procs["reader"].ret = procs["writer"].updated

\* Both calls have ended, and get_profile returned the version that the
\* update_level running next to it wrote.
C26_Witness ==
    /\ "reader" \in DOMAIN procs
    /\ procs["reader"].pc = "done"
    /\ procs["writer"].pc = "done"
    /\ procs["writer"].call.op = "update_level"
    /\ procs["reader"].ret = procs["writer"].updated
    /\ procs["reader"].ret # InitialProfile

\* A mutation of the existing profile that the manager does not refuse.
Proper(c) ==
    /\ c.profile_id = "p1"
    /\ ~(c.op = "update_level" /\ Refused(c.level))
    /\ ~(c.op = "update_coins" /\ Refused(c.coins))

\* C27: two mutations of the same profile running next to each other both
\* complete without raising, and the profile file afterwards holds the
\* complete version written by one of the two.
C27_LastWriteWins ==
    (/\ "first" \in DOMAIN procs
     /\ \A p \in DOMAIN procs : procs[p].pc = "done" /\ Proper(procs[p].call)) =>
        /\ \A p \in DOMAIN procs : procs[p].raised = "none"
        /\ \E p \in DOMAIN procs : files["p1"] = model_dump_json(procs[p].updated)

(***************************************************************************)
(* Properties of the engines across listing orders                         *)
(***************************************************************************)
\* The entries of rs that are the first of their category, in order.
RECURSIVE FirstOfCategory(_)
FirstOfCategory(rs) ==
    IF rs = <<>> THEN <<>>
    ELSE LET front == SubSeq(rs, 1, Len(rs) - 1)
             last == rs[Len(rs)]
         IN  IF \E i \in 1..Len(front) : front[i].category = last.category
             THEN FirstOfCategory(front)
             ELSE Append(FirstOfCategory(front), last)

\* BalancedEngine().rank on the catalog and profile of the state, cut down
\* to the first entry of each category and given the other engine's label.
BalancedWinners ==
    LET firsts == FirstOfCategory(BalancedEngine_rank(DefaultWeights, catalog, profile).ranked)
    IN  [i \in 1..Len(firsts) |-> [firsts[i] EXCEPT !.scoring_method = "per_category_best"]]

\* C28 as stated: PerCategoryEngine.rank returns exactly the first entry of
\* each category of BalancedEngine.rank with all weights 1.0, in the same
\* order and with the same fields but scoring_method.
C28_FilterOfBalanced ==
    call.op = "per_category_best" =>
        /\ result.raised = BalancedEngine_rank(DefaultWeights, catalog, profile).raised
        /\ result.ranked = BalancedWinners

\* C28 amended: PerCategoryEngine.rank returns the same entries as that
\* filter of BalancedEngine.rank, with the same fields but scoring_method,
\* and position by position the same sort key; the order is the same
\* except among winners that are equal in rounded score, cost and name.
C28_SameWinners ==
    call.op = "per_category_best" =>
        /\ result.raised = BalancedEngine_rank(DefaultWeights, catalog, profile).raised
        /\ Len(result.ranked) = Len(BalancedWinners)
        /\ Range(result.ranked) = Range(BalancedWinners)
        /\ \A i \in 1..Len(result.ranked) :
               _sort_key(result.ranked[i]) = _sort_key(BalancedWinners[i])

\* PerCategoryEngine.rank returned two winners equal in score, cost and
\* name in the other order than the filter of BalancedEngine.rank has them.
C28_Witness ==
    /\ call.op = "per_category_best"
    /\ Len(catalog) = 3
    /\ Len(result.ranked) = 2
    /\ result.ranked[1] = BalancedWinners[2]
    /\ result.ranked[2] = BalancedWinners[1]
    /\ result.ranked[1] # result.ranked[2]

\* Every order in which the upgrades of q can be listed.
Reorderings(q) ==
    { [i \in 1..Len(q) |-> q[f[i]]] :
        f \in { g \in [1..Len(q) -> 1..Len(q)] :
                  \A i, j \in 1..Len(q) : g[i] = g[j] => i = j } }

RankCalled == call.op \in {"per_category_best", "balanced", "reference"}

\* The call of the state made again on the catalog listed as q.
RankAgain(q) ==
    CASE call.op = "per_category_best" -> PerCategoryEngine_rank(q, profile)
      [] call.op = "balanced" -> BalancedEngine_rank(call.weights, q, profile)
      [] call.op = "reference" -> ReferenceEngine_rank(call.lab, q, profile)

\* No two entries of rs have the same (rounded score, cost, name).
KeysDistinct(rs) ==
    \A i, j \in 1..Len(rs) : _sort_key(rs[i]) = _sort_key(rs[j]) => i = j

NamesDistinct(upgrades) ==
    \A i, j \in 1..Len(upgrades) : upgrades[i].name = upgrades[j].name => i = j

\* The output of the state is what every other listing of the catalog gives.
SameOnEveryListing ==
    /\ KeysDistinct(result.ranked)
    /\ \A q \in Reorderings(catalog) :
           /\ RankAgain(q).raised = result.raised
           /\ IF call.op = "per_category_best"
              THEN Range(RankAgain(q).ranked) = Range(result.ranked)
              ELSE RankAgain(q).ranked = result.ranked

\* C30 as stated: on every catalog validate_upgrade_data accepts, listing
\* the upgrades in another order gives the same ordered output from
\* BalancedEngine.rank and ReferenceEngine.rank and the same winners from
\* PerCategoryEngine.rank, no two entries of an output having the same key.
C30_ListingIndependent ==
    (RankCalled /\ ok(validate_upgrade_data(catalog))) => SameOnEveryListing

\* C30 amended: on every catalog validate_upgrade_data accepts in which no
\* two upgrades have the same display name, no two entries of an output
\* have the same key, and listing the upgrades in another order gives the
\* same ordered output from all three engines.
C30_DistinctNames ==
    (RankCalled /\ ok(validate_upgrade_data(catalog)) /\ NamesDistinct(catalog)) =>
        /\ SameOnEveryListing
        /\ \A q \in Reorderings(catalog) : RankAgain(q).ranked = result.ranked

\* An engine ranked three upgrades with three names, two of them equal in
\* score and cost, and put the one listed last first.
C30_Witness ==
    /\ RankCalled
    /\ NamesDistinct(catalog)
    /\ Len(catalog) = 3
    /\ Len(result.ranked) = 3
    /\ result.ranked[1].upgrade_id = catalog[3].id
    /\ \E i, j \in 1..3 :
           /\ i # j
           /\ result.ranked[i].score = result.ranked[j].score
           /\ result.ranked[i].coin_cost = result.ranked[j].coin_cost

====
